---------------------------- MODULE Spec2Model ----------------------------
(***************************************************************************)
(* A state-machine model of the PuppeteerMCP screenshot tool: the session  *)
(* map and getBrowser (the browser pool), screenshotTool (the capture      *)
(* pipeline with one position per awaited browser primitive),              *)
(* executePageActions, setCookies and collectPageErrors.                   *)
(*                                                                         *)
(* JavaScript values are modelled as follows.  A string-or-undefined       *)
(* value is a string, UNDEF standing for undefined.  Any other optional    *)
(* value is a tuple: <<>> when it is absent, <<v>> when it is given.       *)
(* A message built from a template literal is the tuple of its pieces.     *)
(***************************************************************************)
EXTENDS Integers, Sequences, FiniteSets, TLC

\* ---------------------------------------------------------------- bounds
\* Number of capture requests that may be in flight together.
NumReqs == 2

Reqs == 1..NumReqs

\* Longest list of breakpoints a request of the capture specification gives.
MaxBreakpoints == 2

\* Longest action list a request of the action specification gives.
MaxActions == 2

\* Most page events delivered to the listeners of one request.
MaxEvents == 3

\* ------------------------------------------------------- JavaScript values
UNDEF == "undefined"

\* Truthiness of a string-or-undefined value: undefined and "" are falsy.
Truthy(s) == s \notin {UNDEF, ""}

Absent == <<>>
Some(v) == <<v>>

\* A session identifier that is no string (the number 123): truthy, usable
\* as a key of the map, and rejected by path.join.
NonStrings == {"Number(123)"}
IsString(s) == s \notin NonStrings

\* A destructuring default applies only when the property is undefined.
OrDefault(opt, d) == IF opt = Absent THEN d ELSE opt[1]

\* ------------------------------------------------------ program constants
DEFAULT_BREAKPOINTS == <<375, 768, 1280>>
DefaultMaxWidth == 1280
InitialViewportHeight == 800
DefaultImageFormat == "jpeg"
DefaultQuality == 80

\* path.join(os.tmpdir(), 'puppeteer-mcp-sessions', sessionId), as segments.
SessionDir(sessionId) == <<"os.tmpdir()", "puppeteer-mcp-sessions", sessionId>>

\* --------------------------------------------------------------- the state
VARIABLES
    args,             \* the argument object each request was called with
    pc,               \* the awaited primitive each request is suspended on
    browserInstances, \* the session map: session key -> browser handle
    browsers,         \* every browser process launched so far, by handle
    browserOf,        \* the handle getBrowser returned to each request
    launchOpts,       \* the launch options of a launch still in flight
    lookupHit,        \* the connected handle getBrowser found in the map
    mapTouch,         \* the request whose step last read or wrote the map
    bpIdx,            \* the index of the breakpoint being processed
    ckIdx,            \* the index of the cookie being set
    actIdx,           \* the index of the action being executed
    actPrims,         \* the primitives the current action has yet to issue
    results,          \* the captures pushed so far
    contentSize,      \* the size measured by getFullPageDimensions
    pageErrors,       \* the array collectPageErrors returned, appended live
    events,           \* the page events delivered to the listeners so far
    ops,              \* the page operations each request issued, in order
    result,           \* the value screenshotTool returned
    tool,             \* request.params.name of each tool call
    thrown,           \* the exception screenshotTool rejected with
    reply,            \* what the CallTool handler returned or threw
    sweep             \* the run of cleanup: its position and its iterator

poolVars == <<browserInstances, browsers, browserOf, launchOpts, lookupHit>>
loopVars == <<bpIdx, ckIdx, actIdx, actPrims, results, contentSize>>
diagVars == <<pageErrors, events>>
shellVars == <<tool, thrown, reply, sweep>>

vars == <<args, pc, browserInstances, browsers, browserOf, launchOpts,
          lookupHit, mapTouch, bpIdx, ckIdx, actIdx, actPrims, results,
          contentSize, pageErrors, events, ops, result, tool, thrown, reply,
          sweep>>

NoHandle == 0

\* cleanup before it is called: its iterator has yielded nothing.
NoSweep == [pc |-> "idle", cursor |-> 0, closing |-> NoHandle]

\* --------------------------------------------------------------- requests
\* The destructured arguments of screenshotTool.
ArgUrl(a) == a.url
ArgBreakpoints(a) == OrDefault(a.breakpoints, DEFAULT_BREAKPOINTS)
ArgHeadless(a) == OrDefault(a.headless, TRUE)
ArgMaxWidth(a) == OrDefault(a.maxWidth, DefaultMaxWidth)
ArgImageFormat(a) == OrDefault(a.imageFormat, DefaultImageFormat)
ArgQuality(a) == OrDefault(a.quality, DefaultQuality)

\* ------------------------------------------------------------ getBrowser
sessionKey(sessionId) == IF Truthy(sessionId) THEN sessionId ELSE "default"

\* finalUserDataDir with the session directory derived from the session key,
\* so that a request without session identifier gets the directory of the
\* key "default".
finalUserDataDirOfKey(sessionId, userDataDir) ==
    IF Truthy(userDataDir) THEN Some(<<userDataDir>>)
    ELSE Some(SessionDir(IF Truthy(sessionId) THEN sessionId ELSE "default"))

\* finalUserDataDir with the session's directory winning over the explicit
\* one.
finalUserDataDirSessionFirst(sessionId, userDataDir) ==
    IF Truthy(sessionId) THEN Some(SessionDir(sessionId))
    ELSE IF Truthy(userDataDir) THEN Some(<<userDataDir>>)
    ELSE Absent

\* finalUserDataDir: the explicit directory wins, then the session's
\* directory under the temp root, else undefined.
finalUserDataDir(sessionId, userDataDir) ==
    IF Truthy(sessionId) \/ Truthy(userDataDir)
    THEN IF Truthy(userDataDir) THEN Some(<<userDataDir>>)
         ELSE Some(SessionDir(sessionId))
    ELSE Absent

\* browserInstances.has(sessionKey) && browserInstances.get(sessionKey).connected
HasConnected(key) ==
    /\ key \in DOMAIN browserInstances
    /\ browsers[browserInstances[key]].connected

\* browserInstances.delete(sessionKey)
MapDelete(m, key) == [k \in (DOMAIN m) \ {key} |-> m[k]]

\* browserInstances.set(sessionKey, browser)
MapSet(m, key, b) == [k \in (DOMAIN m) \cup {key} |-> IF k = key THEN b ELSE m[k]]

\* The options handed to puppeteer.launch.
LaunchOptions(headless, sessionId, userDataDir) ==
    [headless |-> headless,
     args |-> <<"--no-sandbox", "--disable-setuid-sandbox">>,
     userDataDir |-> finalUserDataDir(sessionId, userDataDir)]

NoLaunch == [headless |-> TRUE, args |-> <<>>, userDataDir |-> Absent]

\* A result of the failure shape.
Failure(msg) ==
    [success |-> FALSE, screenshots |-> <<>>, pageErrors |-> <<>>,
     errorSummary |-> [totalErrors |-> 0, totalWarnings |-> 0, totalLogs |-> 0,
                       hasJavaScriptErrors |-> FALSE, hasNetworkErrors |-> FALSE,
                       hasConsoleLogs |-> FALSE],
     error |-> msg, sessionInfo |-> Absent]

NoResult == Failure(<<>>)


\* getBrowser without the reuse of a connected entry: it always launches.
getBrowserNoReuse(headless, sessionId, userDataDir) ==
    [hit |-> NoHandle,
     map |-> IF sessionKey(sessionId) \in DOMAIN browserInstances
             THEN MapDelete(browserInstances, sessionKey(sessionId))
             ELSE browserInstances,
     launch |-> LaunchOptions(headless, sessionId, userDataDir)]

\* getBrowser returning the entry of the key whether or not it is connected.
getBrowserReturnStale(headless, sessionId, userDataDir) ==
    LET key == sessionKey(sessionId) IN
    IF key \in DOMAIN browserInstances
    THEN [hit |-> browserInstances[key], map |-> browserInstances,
          launch |-> NoLaunch]
    ELSE [hit |-> NoHandle, map |-> browserInstances,
          launch |-> LaunchOptions(headless, sessionId, userDataDir)]

\* The part of getBrowser that runs before its only await, puppeteer.launch:
\* the lookup, the eviction of a disconnected entry and the launch options.
\* hit is the connected handle returned at once (NoHandle: a launch starts).
getBrowser(headless, sessionId, userDataDir) ==
    LET key == sessionKey(sessionId) IN
    IF HasConnected(key)
    THEN [hit |-> browserInstances[key], map |-> browserInstances,
          launch |-> NoLaunch]
    ELSE [hit |-> NoHandle,
          map |-> IF key \in DOMAIN browserInstances
                  THEN MapDelete(browserInstances, key)
                  ELSE browserInstances,
          launch |-> LaunchOptions(headless, sessionId, userDataDir)]

\* The browser process puppeteer.launch starts for request r.
NewBrowser(r, opts) ==
    [key |-> sessionKey(args[r].sessionId), userDataDir |-> opts.userDataDir,
     headless |-> opts.headless, connected |-> TRUE, launchedBy |-> r,
     pages |-> 0,
     fresh |-> sessionKey(args[r].sessionId) \notin DOMAIN browserInstances]

\* A running Chrome holds its profile directory: a second Chrome started on
\* the same directory exits, and puppeteer.launch rejects.
ProfileFree(dir) ==
    \/ dir = Absent
    \/ \A b \in DOMAIN browsers :
          browsers[b].connected => browsers[b].userDataDir # dir

\* ------------------------------------------------------------------ URLs
\* The URLs of the model.  "example.com" has no scheme: new URL(url) throws
\* on it and page.goto rejects it.
ValidUrls == {"https://example.com/", "https://y.test/", "http://localhost:3000/"}

\* new URL(url).hostname
hostname(url) ==
    CASE url = "https://example.com/" -> "example.com"
      [] url = "https://y.test/" -> "y.test"
      [] url = "http://localhost:3000/" -> "localhost"
      [] OTHER -> ""

\* ------------------------------------------------- the request's arguments
Bps(r) == ArgBreakpoints(args[r])
Acts(r) == OrDefault(args[r].actions, <<>>)
\* cookies && cookies.length > 0 selects the same cookies as this list.
Cks(r) == OrDefault(args[r].cookies, <<>>)

\* One entry of the operation log: the primitive called, the breakpoint
\* iteration and the action (0: none) it was called in, and its arguments.
Op(name, k, i, arg) == [op |-> name, bp |-> k, act |-> i, arg |-> arg]

\* What a continuation does before it suspends again: the primitive it
\* awaits next (pc), the calls it makes, and its loop counters; pc = "done"
\* with an error when it throws instead.
K(pcv, o, ck, ai, prims, err) ==
    [pc |-> pcv, ops |-> o, ckIdx |-> ck, actIdx |-> ai, actPrims |-> prims,
     error |-> err]

\* The message of a rejected primitive.
Rejection(name) == <<name, " rejected">>

\* The switch without the check of the hover case.
ActionCheckNoHover(a) ==
    CASE a.type = "click" ->
           IF ~Truthy(a.selector) THEN <<"Click action requires selector">>
           ELSE <<>>
      [] a.type = "type" ->
           IF ~Truthy(a.selector) \/ ~Truthy(a.text)
           THEN <<"Type action requires selector and text">> ELSE <<>>
      [] a.type = "clear" ->
           IF ~Truthy(a.selector) THEN <<"Clear action requires selector">>
           ELSE <<>>
      [] a.type = "scroll" -> <<>>
      [] a.type = "hover" -> <<>>
      [] a.type = "select" ->
           IF ~Truthy(a.selector) \/ ~Truthy(a.value)
           THEN <<"Select action requires selector and value">> ELSE <<>>
      [] a.type = "wait" -> <<>>
      [] a.type = "waitForElement" ->
           IF ~Truthy(a.selector)
           THEN <<"WaitForElement action requires selector">> ELSE <<>>
      [] a.type = "navigate" ->
           IF ~Truthy(a.url) THEN <<"Navigate action requires url">> ELSE <<>>
      [] OTHER -> <<"Unknown action type: ", a.type>>

\* ---------------------------------------------------- executePageActions
\* The precondition each case of the switch checks before it touches the
\* page: the message it throws, or <<>> when the action may run.
ActionCheck(a) ==
    CASE a.type = "click" ->
           IF ~Truthy(a.selector) THEN <<"Click action requires selector">>
           ELSE <<>>
      [] a.type = "type" ->
           IF ~Truthy(a.selector) \/ ~Truthy(a.text)
           THEN <<"Type action requires selector and text">> ELSE <<>>
      [] a.type = "clear" ->
           IF ~Truthy(a.selector) THEN <<"Clear action requires selector">>
           ELSE <<>>
      [] a.type = "scroll" -> <<>>
      [] a.type = "hover" ->
           IF ~Truthy(a.selector) THEN <<"Hover action requires selector">>
           ELSE <<>>
      [] a.type = "select" ->
           IF ~Truthy(a.selector) \/ ~Truthy(a.value)
           THEN <<"Select action requires selector and value">> ELSE <<>>
      [] a.type = "wait" -> <<>>
      [] a.type = "waitForElement" ->
           IF ~Truthy(a.selector)
           THEN <<"WaitForElement action requires selector">> ELSE <<>>
      [] a.type = "navigate" ->
           IF ~Truthy(a.url) THEN <<"Navigate action requires url">> ELSE <<>>
      [] OTHER -> <<"Unknown action type: ", a.type>>

\* The switch with a scroll that prefers the selector to the coordinates.
ActionPrimitivesSelectorFirst(a) ==
    CASE a.type = "click" -> <<"page.waitForSelector", "page.click">>
      [] a.type = "type" -> <<"page.waitForSelector", "page.type">>
      [] a.type = "clear" -> <<"page.waitForSelector", "page.evaluate:clear">>
      [] a.type = "scroll" ->
           IF Truthy(a.selector)
           THEN <<"page.waitForSelector", "page.evaluate:scrollIntoView">>
           ELSE IF a.x # Absent /\ a.y # Absent
                THEN <<"page.evaluate:scrollTo">>
                ELSE <<"page.evaluate:scrollToBottom">>
      [] a.type = "hover" -> <<"page.waitForSelector", "page.hover">>
      [] a.type = "select" -> <<"page.waitForSelector", "page.select">>
      [] a.type = "wait" -> <<"setTimeout">>
      [] a.type = "waitForElement" -> <<"page.waitForSelector">>
      [] a.type = "navigate" -> <<"page.goto">>
      [] OTHER -> <<>>

\* The primitives each case awaits, in order.
ActionPrimitives(a) ==
    CASE a.type = "click" -> <<"page.waitForSelector", "page.click">>
      [] a.type = "type" -> <<"page.waitForSelector", "page.type">>
      [] a.type = "clear" -> <<"page.waitForSelector", "page.evaluate:clear">>
      [] a.type = "scroll" ->
           IF a.x # Absent /\ a.y # Absent
           THEN <<"page.evaluate:scrollTo">>
           ELSE IF Truthy(a.selector)
                THEN <<"page.waitForSelector", "page.evaluate:scrollIntoView">>
                ELSE <<"page.evaluate:scrollToBottom">>
      [] a.type = "hover" -> <<"page.waitForSelector", "page.hover">>
      [] a.type = "select" -> <<"page.waitForSelector", "page.select">>
      [] a.type = "wait" -> <<"setTimeout">>
      [] a.type = "waitForElement" -> <<"page.waitForSelector">>
      [] a.type = "navigate" -> <<"page.goto">>
      [] OTHER -> <<>>

\* The catch of executePageActions: the error it rethrows.
ActionError(type, cause) == <<"Failed to execute action ", type, ": ">> \o cause

\* getFullPageDimensions is called once executePageActions has returned.
StartEvaluate(r, k) ==
    K("evaluate", <<Op("page.evaluate:dimensions", k, 0, <<>>)>>, 0, 0, <<>>, <<>>)

\* executePageActions run in the first iteration only.
StartActionFirstOnly(r, k, i) ==
    IF k > 1 \/ i > Len(Acts(r)) THEN StartEvaluate(r, k)
    ELSE LET a == Acts(r)[i]
             cause == ActionCheck(a)
             ps == ActionPrimitives(a)
         IN IF cause # <<>>
            THEN K("done", <<>>, 0, i, <<>>, ActionError(a.type, cause))
            ELSE K("action", <<Op(ps[1], k, i, <<>>)>>, 0, i, ps, <<>>)

\* executePageActions arriving at action i of iteration k: its check, then
\* its first primitive; past the last action the function returns.
StartAction(r, k, i) ==
    IF i > Len(Acts(r)) THEN StartEvaluate(r, k)
    ELSE LET a == Acts(r)[i]
             cause == ActionCheck(a)
             ps == ActionPrimitives(a)
         IN IF cause # <<>>
            THEN K("done", <<>>, 0, i, <<>>, ActionError(a.type, cause))
            ELSE K("action", <<Op(ps[1], k, i, <<>>)>>, 0, i, ps, <<>>)

\* ---------------------------------------------------------------- setCookies
\* The cookie handed on with its domain and path as they were supplied.
cookieToSetAsGiven(cookie, url) ==
    [name |-> cookie.name, value |-> cookie.value, domain |-> cookie.domain,
     path |-> cookie.path]

\* The cookie handed to page.setCookie.
cookieToSet(cookie, url) ==
    [name |-> cookie.name,
     value |-> cookie.value,
     domain |-> IF Truthy(cookie.domain) THEN cookie.domain ELSE hostname(url),
     path |-> IF Truthy(cookie.path) THEN cookie.path ELSE "/"]

\* page.goto(url, {waitUntil, timeout}) of iteration k.
StartGoto(r, k) ==
    K("goto", <<Op("page.goto", k, 0, <<ArgUrl(args[r])>>)>>, 0, 0, <<>>, <<>>)

\* setCookies arriving at cookie j: past the last cookie it returns and
\* the navigation starts.
NextCookie(r, k, j) ==
    IF j > Len(Cks(r)) THEN StartGoto(r, k)
    ELSE K("setCookie",
           <<Op("page.setCookie", k, 0,
                <<cookieToSet(Cks(r)[j], ArgUrl(args[r]))>>)>>,
           j, 0, <<>>, <<>>)

\* The loop body without its setCookies step.
StartCookiesSkipped(r, k) == StartGoto(r, k)

\* After setViewport: setCookies when cookies were given (new URL(url)
\* throws on an invalid URL), then the navigation.
StartCookies(r, k) ==
    IF Len(Cks(r)) > 0
    THEN IF ArgUrl(args[r]) \notin ValidUrls
         THEN K("done", <<>>, 0, 0, <<>>, <<"Invalid URL">>)
         ELSE NextCookie(r, k, 1)
    ELSE StartGoto(r, k)

\* ------------------------------------------------------- screenshotTool
\* The loop with its bound off by one: the last breakpoint is skipped.
StartLoopShort(r, i) ==
    IF i >= Len(Bps(r))
    THEN K("close", <<Op("page.close", i, 0, <<>>)>>, 0, 0, <<>>, <<>>)
    ELSE K("setViewport",
           <<Op("page.setViewport", i, 0, <<Bps(r)[i], InitialViewportHeight>>)>>,
           0, 0, <<>>, <<>>)

\* The for loop over breakpoints arriving at iteration i: setViewport with
\* the requested width, or page.close past the last breakpoint.
StartLoop(r, i) ==
    IF i > Len(Bps(r))
    THEN K("close", <<Op("page.close", i, 0, <<>>)>>, 0, 0, <<>>, <<>>)
    ELSE K("setViewport",
           <<Op("page.setViewport", i, 0, <<Bps(r)[i], InitialViewportHeight>>)>>,
           0, 0, <<>>, <<>>)

\* A continuation runs: the request moves to its next suspension, or to the
\* catch of screenshotTool, which returns the failure shape.
Apply(r, c) ==
    /\ pc' = [pc EXCEPT ![r] = c.pc]
    /\ ops' = [ops EXCEPT ![r] = @ \o c.ops]
    /\ ckIdx' = [ckIdx EXCEPT ![r] = c.ckIdx]
    /\ actIdx' = [actIdx EXCEPT ![r] = c.actIdx]
    /\ actPrims' = [actPrims EXCEPT ![r] = c.actPrims]
    /\ result' = IF c.pc = "done"
                 THEN [result EXCEPT ![r] = Failure(c.error)]
                 ELSE result

\* ------------------------------------------------------ collectPageErrors
\* response.ok() true for every status below 400.
ResponseOkBelow400(status) == status >= 200 /\ status <= 399

\* response.ok(): the status is in 200..299.
ResponseOk(status) == status >= 200 /\ status <= 299

\* failure.errorText.includes('CORS'), for the error texts of the model.
IncludesCORS(text) == text = "blocked by CORS policy"

\* The level of a console message with "assert" taken for a plain message.
ConsoleLevelAssertInfo(t) ==
    IF t = "error" THEN "error"
    ELSE IF t = "warning" THEN "warning"
    ELSE "info"

\* The level the console listener gives a message of console type t.
ConsoleLevel(t) ==
    IF t = "error" \/ t = "assert" THEN "error"
    ELSE IF t = "warning" THEN "warning"
    ELSE "info"

\* A record of the diagnostics list; url is set by the two network
\* listeners only.
PageError(type, level, message, statusCode) ==
    [type |-> type, level |-> level, message |-> message,
     statusCode |-> statusCode, url |-> UNDEF]

\* What the four listeners push for one page event: at most one record.
Listener(e) ==
    CASE e.kind = "pageerror" ->
           <<PageError("javascript", "error", <<e.text>>, 0)>>
      [] e.kind = "console" ->
           <<PageError("console", ConsoleLevel(e.type), <<e.text>>, 0)>>
      [] e.kind = "response" ->
           IF ~ResponseOk(e.status)
           THEN <<[PageError("network",
                             IF e.status >= 500 THEN "error" ELSE "warning",
                             <<"Failed to load resource: ", e.status>>,
                             e.status) EXCEPT !.url = e.url]>>
           ELSE <<>>
      [] e.kind = "requestfailed" ->
           IF e.text # UNDEF
           THEN <<[PageError(IF IncludesCORS(e.text) THEN "security"
                             ELSE "network",
                             "error", <<"Request failed: ", e.text>>, 0)
                      EXCEPT !.url = e.url]>>
           ELSE <<>>

\* The URL of the resource a response or a failed request is about.
ResourceUrl == "https://example.com/app.js"

\* A page event; response.url() and request.url() are ResourceUrl unless
\* the event names another resource.
Event(kind, type, status, text) ==
    [kind |-> kind, type |-> type, status |-> status, text |-> text,
     url |-> IF kind \in {"response", "requestfailed"} THEN ResourceUrl
             ELSE UNDEF]

\* A count that takes every record, whatever its level.
CountAnyLevel(pe, level) == Len(pe)

\* pageErrors.filter(e => e.level === level).length
CountLevel(pe, level) == Cardinality({i \in DOMAIN pe : pe[i].level = level})

\* pageErrors.some(e => e.type === type && e.level === level)
SomeOf(pe, type, level) ==
    \E i \in DOMAIN pe : pe[i].type = type /\ pe[i].level = level

\* errorSummary with hasNetworkErrors true for a network record of any level.
errorSummaryAnyNetwork(pe) ==
    [totalErrors |-> CountLevel(pe, "error"),
     totalWarnings |-> CountLevel(pe, "warning"),
     totalLogs |-> CountLevel(pe, "info"),
     hasJavaScriptErrors |-> SomeOf(pe, "javascript", "error"),
     hasNetworkErrors |-> \E i \in DOMAIN pe : pe[i].type = "network",
     hasConsoleLogs |-> SomeOf(pe, "console", "info")]

errorSummary(pe) ==
    [totalErrors |-> CountLevel(pe, "error"),
     totalWarnings |-> CountLevel(pe, "warning"),
     totalLogs |-> CountLevel(pe, "info"),
     hasJavaScriptErrors |-> SomeOf(pe, "javascript", "error"),
     hasNetworkErrors |-> SomeOf(pe, "network", "error"),
     hasConsoleLogs |-> SomeOf(pe, "console", "info")]

\* ------------------------------------------------- one breakpoint's capture
\* shouldOptimize with the comparison off by one.
shouldOptimizeAtMax(width, maxWidth) == width >= maxWidth

shouldOptimize(width, maxWidth) == width > maxWidth

\* The options of page.screenshot with a clip as high as the initial
\* viewport.
screenshotOptionsViewportHeight(format, quality, width, maxWidth, height) ==
    [fullPage |-> TRUE, encoding |-> "base64",
     type |-> IF format = "jpeg" THEN "jpeg" ELSE "png",
     quality |-> IF format = "jpeg" THEN Some(quality) ELSE Absent,
     clip |-> IF shouldOptimize(width, maxWidth)
              THEN Some([x |-> 0, y |-> 0, width |-> maxWidth,
                         height |-> InitialViewportHeight])
              ELSE Absent]

\* The options of page.screenshot.
screenshotOptions(format, quality, width, maxWidth, height) ==
    [fullPage |-> TRUE, encoding |-> "base64",
     type |-> IF format = "jpeg" THEN "jpeg" ELSE "png",
     quality |-> IF format = "jpeg" THEN Some(quality) ELSE Absent,
     clip |-> IF shouldOptimize(width, maxWidth)
              THEN Some([x |-> 0, y |-> 0, width |-> maxWidth, height |-> height])
              ELSE Absent]

\* data:${mimeType};base64,
dataPrefix(format) ==
    IF format = "jpeg" THEN "data:image/jpeg;base64,"
    ELSE "data:image/png;base64,"

\* The entry results.push adds for a breakpoint of the given width, the
\* measured content size cs and the rendered base64 payload.
Capture(width, maxWidth, format, cs, payload) ==
    [width |-> IF shouldOptimize(width, maxWidth) THEN maxWidth ELSE width,
     height |-> cs.height,
     screenshot |-> <<dataPrefix(format), payload>>,
     format |-> format,
     metadata |->
        [viewport |-> [width |-> width, height |-> InitialViewportHeight],
         actualContentSize |-> cs,
         optimized |-> shouldOptimize(width, maxWidth),
         originalSize |-> IF shouldOptimize(width, maxWidth)
                          THEN Some([width |-> width, height |-> cs.height])
                          ELSE Absent]]

\* Session metadata attached whenever a profile directory was resolved.
sessionInfoAnyProfile(sessionId, userDataDir) ==
    IF Truthy(sessionId) \/ Truthy(userDataDir)
    THEN Some([sessionId |-> sessionId,
               userDataDir |-> IF Truthy(userDataDir) THEN <<userDataDir>>
                               ELSE <<"os.tmpdir()", "puppeteer-mcp-sessions",
                                      sessionId>>,
               persistent |-> TRUE])
    ELSE Absent

\* The session metadata of a successful result.
sessionInfo(sessionId, userDataDir) ==
    IF Truthy(sessionId)
    THEN Some([sessionId |-> sessionId,
               userDataDir |-> OrDefault(finalUserDataDir(sessionId, userDataDir),
                                         SessionDir(sessionId)),
               persistent |-> TRUE])
    ELSE Absent

\* The result screenshotTool returns after page.close.
Success(r) ==
    [success |-> TRUE, screenshots |-> results[r], pageErrors |-> pageErrors[r],
     errorSummary |-> errorSummary(pageErrors[r]), error |-> <<>>,
     sessionInfo |-> sessionInfo(args[r].sessionId, args[r].userDataDir)]

\* ------------------------------------------------------------- the steps
\* screenshotTool without its url check: getBrowser is called at once.
InvokeNoUrlCheck(r) ==
    /\ pc[r] = "idle"
    /\ LET g == getBrowser(ArgHeadless(args[r]), args[r].sessionId,
                           args[r].userDataDir) IN
       /\ browserInstances' = g.map
       /\ mapTouch' = r
       /\ browserOf' = [browserOf EXCEPT ![r] = g.hit]
       /\ launchOpts' = [launchOpts EXCEPT ![r] = g.launch]
       /\ pc' = [pc EXCEPT ![r] = IF g.hit # NoHandle THEN "newPage"
                                  ELSE "launch"]
       /\ ops' = [ops EXCEPT ![r] =
                     IF g.hit # NoHandle
                     THEN <<Op("browser.newPage", 0, 0, <<>>)>>
                     ELSE <<Op("puppeteer.launch", 0, 0, <<g.launch>>)>>]
    /\ UNCHANGED <<args, shellVars, browsers, lookupHit, loopVars, diagVars,
                   result>>

\* What screenshotTool throws before its try block: the TypeError of
\* destructuring an absent argument object, or the TypeError of path.join
\* when the session directory is derived from a session identifier that is
\* no string; <<>> when nothing is thrown.
UnpackError(a) ==
    IF ~a.given
    THEN <<"Cannot destructure property 'url' of 'args' as it is undefined.">>
    ELSE IF ~Truthy(a.userDataDir) /\ Truthy(a.sessionId)
            /\ ~IsString(a.sessionId)
         THEN <<"The \"path\" argument must be of type string. Received ",
                a.sessionId>>
         ELSE <<>>

\* screenshotTool up to its first suspension: the destructuring and the
\* derivation of the session directory (either may throw, and the promise
\* of screenshotTool rejects), the url check and the synchronous part of
\* getBrowser, which either returns the connected handle of the map
\* (browser.newPage is called next) or calls puppeteer.launch.
Invoke(r) ==
    /\ pc[r] = "idle"
    /\ IF UnpackError(args[r]) # <<>>
       THEN /\ thrown' = [thrown EXCEPT ![r] = UnpackError(args[r])]
            /\ pc' = [pc EXCEPT ![r] = "thrown"]
            /\ mapTouch' = 0
            /\ UNCHANGED <<browserInstances, browserOf, launchOpts, lookupHit,
                           ops, result>>
       ELSE IF ~Truthy(ArgUrl(args[r]))
       THEN /\ result' = [result EXCEPT ![r] = Failure(<<"URL is required">>)]
            /\ pc' = [pc EXCEPT ![r] = "done"]
            /\ mapTouch' = 0
            /\ UNCHANGED <<browserInstances, browserOf, launchOpts, lookupHit,
                           ops, thrown>>
       ELSE LET g == getBrowser(ArgHeadless(args[r]), args[r].sessionId,
                                args[r].userDataDir) IN
            /\ browserInstances' = g.map
            /\ mapTouch' = r
            /\ lookupHit' = [lookupHit EXCEPT ![r] =
                                IF HasConnected(sessionKey(args[r].sessionId))
                                THEN browserInstances[sessionKey(args[r].sessionId)]
                                ELSE NoHandle]
            /\ browserOf' = [browserOf EXCEPT ![r] = g.hit]
            /\ launchOpts' = [launchOpts EXCEPT ![r] = g.launch]
            /\ pc' = [pc EXCEPT ![r] = IF g.hit # NoHandle THEN "newPage"
                                       ELSE "launch"]
            /\ ops' = [ops EXCEPT ![r] =
                          IF g.hit # NoHandle
                          THEN <<Op("browser.newPage", 0, 0, <<>>)>>
                          ELSE <<Op("puppeteer.launch", 0, 0, <<g.launch>>)>>]
            /\ UNCHANGED <<result, thrown>>
    /\ UNCHANGED <<args, tool, reply, sweep, browsers, loopVars, diagVars>>

\* puppeteer.launch resolves: getBrowser stores the handle under the key and
\* returns it, and screenshotTool calls browser.newPage.
LaunchOk(r) ==
    /\ pc[r] = "launch"
    /\ ProfileFree(launchOpts[r].userDataDir)
    /\ LET b == Len(browsers) + 1 IN
       /\ browsers' = Append(browsers, NewBrowser(r, launchOpts[r]))
       /\ browserInstances' =
              MapSet(browserInstances, sessionKey(args[r].sessionId), b)
       /\ browserOf' = [browserOf EXCEPT ![r] = b]
    /\ mapTouch' = r
    /\ pc' = [pc EXCEPT ![r] = "newPage"]
    /\ ops' = [ops EXCEPT ![r] = Append(@, Op("browser.newPage", 0, 0, <<>>))]
    /\ UNCHANGED <<args, shellVars, launchOpts, lookupHit, loopVars, diagVars, result>>

\* The browser of request r still answers.
Connected(r) == browsers[browserOf[r]].connected

\* The four subscriptions collectPageErrors makes.
Subscriptions ==
    <<Op("page.on:pageerror", 0, 0, <<>>), Op("page.on:console", 0, 0, <<>>),
      Op("page.on:response", 0, 0, <<>>), Op("page.on:requestfailed", 0, 0, <<>>)>>

\* browser.newPage resolves and the loop starts on a page nothing has
\* subscribed to.
NewPageOkUnsubscribed(r) ==
    /\ pc[r] = "newPage"
    /\ Connected(r)
    /\ browsers' = [browsers EXCEPT ![browserOf[r]].pages = @ + 1]
    /\ bpIdx' = [bpIdx EXCEPT ![r] = 1]
    /\ Apply(r, StartLoop(r, 1))
    /\ mapTouch' = 0
    /\ UNCHANGED <<args, shellVars, browserInstances, browserOf, launchOpts, lookupHit,
                   results, contentSize, diagVars>>

\* browser.newPage resolves; collectPageErrors subscribes to the page and
\* the loop over the breakpoints starts.
NewPageOk(r) ==
    /\ pc[r] = "newPage"
    /\ Connected(r)
    /\ browsers' = [browsers EXCEPT ![browserOf[r]].pages = @ + 1]
    /\ bpIdx' = [bpIdx EXCEPT ![r] = 1]
    /\ LET c == StartLoop(r, 1) IN
       Apply(r, [c EXCEPT !.ops = Subscriptions \o @])
    /\ mapTouch' = 0
    /\ UNCHANGED <<args, shellVars, browserInstances, browserOf, launchOpts, lookupHit,
                   results, contentSize, diagVars>>

\* page.setViewport resolves.
SetViewportOk(r) ==
    /\ pc[r] = "setViewport"
    /\ Connected(r)
    /\ Apply(r, StartCookies(r, bpIdx[r]))
    /\ mapTouch' = 0
    /\ UNCHANGED <<args, shellVars, poolVars, bpIdx, results, contentSize, diagVars>>

\* page.setCookie resolves, or rejects: setCookies catches the rejection,
\* logs it and goes on with the next cookie.
SetCookieOk(r) ==
    /\ pc[r] = "setCookie"
    /\ Connected(r)
    /\ Apply(r, NextCookie(r, bpIdx[r], ckIdx[r] + 1))
    /\ mapTouch' = 0
    /\ UNCHANGED <<args, shellVars, poolVars, bpIdx, results, contentSize, diagVars>>

\* A rejected page.setCookie that reaches the catch of screenshotTool.
SetCookieFailFatal(r) ==
    /\ pc[r] = "setCookie"
    /\ result' = [result EXCEPT ![r] = Failure(<<"page.setCookie rejected">>)]
    /\ pc' = [pc EXCEPT ![r] = "done"]
    /\ mapTouch' = 0
    /\ UNCHANGED <<args, shellVars, poolVars, loopVars, diagVars, ops>>

SetCookieFail(r) ==
    /\ pc[r] = "setCookie"
    /\ LET c == NextCookie(r, bpIdx[r], ckIdx[r] + 1) IN
       Apply(r, [c EXCEPT !.ops =
                    <<Op("console.error", bpIdx[r], 0, <<ckIdx[r]>>)>> \o @])
    /\ mapTouch' = 0
    /\ UNCHANGED <<args, shellVars, poolVars, bpIdx, results, contentSize, diagVars>>

\* page.goto resolves: executePageActions runs when actions were given.
GotoOk(r) ==
    /\ pc[r] = "goto"
    /\ Connected(r)
    /\ ArgUrl(args[r]) \in ValidUrls
    /\ Apply(r, StartAction(r, bpIdx[r], 1))
    /\ mapTouch' = 0
    /\ UNCHANGED <<args, shellVars, poolVars, bpIdx, results, contentSize, diagVars>>

\* The primitive an action awaits resolves and, after the last one, the
\* next action starts without a delay.
ActionPrimOkNoSettle(r) ==
    /\ pc[r] = "action"
    /\ Head(actPrims[r]) = "setTimeout" \/ Connected(r)
    /\ Head(actPrims[r]) = "page.goto" =>
           Acts(r)[actIdx[r]].url \in ValidUrls
    /\ LET rest == Tail(actPrims[r]) IN
       Apply(r, IF rest # <<>>
                THEN K("action", <<Op(rest[1], bpIdx[r], actIdx[r], <<>>)>>,
                       0, actIdx[r], rest, <<>>)
                ELSE StartAction(r, bpIdx[r], actIdx[r] + 1))
    /\ mapTouch' = 0
    /\ UNCHANGED <<args, shellVars, poolVars, bpIdx, results, contentSize, diagVars>>

\* The primitive an action awaits resolves: its next primitive is called,
\* or, after its last one, the 100 ms delay between actions starts.
ActionPrimOk(r) ==
    /\ pc[r] = "action"
    /\ Head(actPrims[r]) = "setTimeout" \/ Connected(r)
    /\ Head(actPrims[r]) = "page.goto" =>
           Acts(r)[actIdx[r]].url \in ValidUrls
    /\ LET rest == Tail(actPrims[r]) IN
       Apply(r, IF rest # <<>>
                THEN K("action", <<Op(rest[1], bpIdx[r], actIdx[r], <<>>)>>,
                       0, actIdx[r], rest, <<>>)
                ELSE K("settle",
                       <<Op("setTimeout:100", bpIdx[r], actIdx[r], <<>>)>>,
                       0, actIdx[r], <<>>, <<>>))
    /\ mapTouch' = 0
    /\ UNCHANGED <<args, shellVars, poolVars, bpIdx, results, contentSize, diagVars>>

\* The delay between actions ends: the next action starts.
SettleOk(r) ==
    /\ pc[r] = "settle"
    /\ Apply(r, StartAction(r, bpIdx[r], actIdx[r] + 1))
    /\ mapTouch' = 0
    /\ UNCHANGED <<args, shellVars, poolVars, bpIdx, results, contentSize, diagVars>>

\* getFullPageDimensions resolves with the content height h; page.screenshot
\* is called with the options built from it.
EvaluateOk(r, h) ==
    /\ pc[r] = "evaluate"
    /\ Connected(r)
    /\ contentSize' = [contentSize EXCEPT ![r] =
                          [width |-> Bps(r)[bpIdx[r]], height |-> h]]
    /\ Apply(r, K("screenshot",
                  <<Op("page.screenshot", bpIdx[r], 0,
                       <<screenshotOptions(ArgImageFormat(args[r]),
                                           ArgQuality(args[r]),
                                           Bps(r)[bpIdx[r]],
                                           ArgMaxWidth(args[r]), h)>>)>>,
                  0, 0, <<>>, <<>>))
    /\ mapTouch' = 0
    /\ UNCHANGED <<args, shellVars, poolVars, bpIdx, results, diagVars>>

\* page.screenshot resolves: the capture is pushed and the loop goes on.
ScreenshotOk(r) ==
    /\ pc[r] = "screenshot"
    /\ Connected(r)
    /\ results' = [results EXCEPT ![r] =
                      Append(@, Capture(Bps(r)[bpIdx[r]], ArgMaxWidth(args[r]),
                                        ArgImageFormat(args[r]), contentSize[r],
                                        <<"base64", bpIdx[r]>>))]
    /\ bpIdx' = [bpIdx EXCEPT ![r] = @ + 1]
    /\ Apply(r, StartLoop(r, bpIdx[r] + 1))
    /\ mapTouch' = 0
    /\ UNCHANGED <<args, shellVars, poolVars, contentSize, diagVars>>

\* page.close resolves and the browser is closed with it.
CloseOkAndBrowser(r) ==
    /\ pc[r] = "close"
    /\ Connected(r)
    /\ browsers' = [browsers EXCEPT ![browserOf[r]].pages = 0,
                                    ![browserOf[r]].connected = FALSE]
    /\ result' = [result EXCEPT ![r] = Success(r)]
    /\ pc' = [pc EXCEPT ![r] = "done"]
    /\ ops' = [ops EXCEPT ![r] = Append(@, Op("browser.close", 0, 0, <<>>))]
    /\ mapTouch' = 0
    /\ UNCHANGED <<args, shellVars, browserInstances, browserOf, launchOpts, lookupHit,
                   loopVars, diagVars>>

\* page.close resolves: the summary is computed and the result returned.
CloseOk(r) ==
    /\ pc[r] = "close"
    /\ Connected(r)
    /\ browsers' = [browsers EXCEPT ![browserOf[r]].pages = @ - 1]
    /\ result' = [result EXCEPT ![r] = Success(r)]
    /\ pc' = [pc EXCEPT ![r] = "done"]
    /\ mapTouch' = 0
    /\ UNCHANGED <<args, shellVars, browserInstances, browserOf, launchOpts, lookupHit,
                   loopVars, diagVars, ops>>

\* A catch that returns what was collected before the rejection.
RaisePartial(r) ==
    /\ \/ pc[r] \in {"launch", "newPage", "setViewport", "goto", "evaluate",
                      "screenshot", "close"}
       \/ pc[r] = "action" /\ Head(actPrims[r]) # "setTimeout"
    /\ result' = [result EXCEPT ![r] =
                     [Failure(<<pc[r], " rejected">>) EXCEPT
                         !.screenshots = results[r],
                         !.pageErrors = pageErrors[r]]]
    /\ pc' = [pc EXCEPT ![r] = "done"]
    /\ mapTouch' = 0
    /\ UNCHANGED <<args, shellVars, poolVars, loopVars, diagVars, ops>>

\* A catch that closes the browser of the failing request and removes its
\* entry from the session map.
RaiseTeardown(r) ==
    /\ \/ pc[r] \in {"launch", "newPage", "setViewport", "goto", "evaluate",
                      "screenshot", "close"}
       \/ pc[r] = "action" /\ Head(actPrims[r]) # "setTimeout"
    /\ result' = [result EXCEPT ![r] = Failure(<<pc[r], " rejected">>)]
    /\ pc' = [pc EXCEPT ![r] = "done"]
    /\ IF browserOf[r] # NoHandle
       THEN /\ browsers' = [browsers EXCEPT ![browserOf[r]].connected = FALSE,
                                            ![browserOf[r]].pages = 0]
            /\ browserInstances' =
                   [k \in (DOMAIN browserInstances)
                          \ {IF Truthy(args[r].sessionId)
                             THEN args[r].sessionId ELSE "default"}
                      |-> browserInstances[k]]
            /\ mapTouch' = r
       ELSE /\ UNCHANGED <<browsers, browserInstances>>
            /\ mapTouch' = 0
    /\ UNCHANGED <<args, shellVars, browserOf, launchOpts, lookupHit, loopVars,
                   diagVars, ops>>

\* The positions whose awaited primitive may reject into the catch of
\* screenshotTool (a rejected page.setCookie is caught by setCookies, and a
\* timer never rejects).
Rejectable(r) ==
    \/ pc[r] \in {"launch", "newPage", "setViewport", "goto", "evaluate",
                  "screenshot", "close"}
    \/ pc[r] = "action" /\ Head(actPrims[r]) # "setTimeout"

\* The message screenshotTool returns when the primitive awaited at the
\* position of request r rejects.
RejectionMessage(r) ==
    IF pc[r] = "action"
    THEN ActionError(Acts(r)[actIdx[r]].type, Rejection(Head(actPrims[r])))
    ELSE Rejection(pc[r])

\* A rejected primitive that nothing catches or returns: the request is left
\* waiting.
RaiseHang(r) ==
    /\ Rejectable(r)
    /\ pc' = [pc EXCEPT ![r] = "hung"]
    /\ mapTouch' = 0
    /\ UNCHANGED <<args, shellVars, poolVars, loopVars, diagVars, ops, result>>

\* A rejected puppeteer.launch answered with one more launch.
RaiseRelaunch(r) ==
    /\ Rejectable(r)
    /\ IF pc[r] = "launch" /\ Len(ops[r]) = 1
       THEN /\ ops' = [ops EXCEPT ![r] = Append(@, @[1])]
            /\ UNCHANGED <<pc, result>>
       ELSE /\ result' = [result EXCEPT ![r] = Failure(RejectionMessage(r))]
            /\ pc' = [pc EXCEPT ![r] = "done"]
            /\ UNCHANGED ops
    /\ mapTouch' = 0
    /\ UNCHANGED <<args, shellVars, poolVars, loopVars, diagVars>>

\* A catch that closes the page the failing request had opened.
RaiseClosePage(r) ==
    /\ Rejectable(r)
    /\ result' = [result EXCEPT ![r] = Failure(RejectionMessage(r))]
    /\ pc' = [pc EXCEPT ![r] = "done"]
    /\ IF bpIdx[r] >= 1 /\ browsers[browserOf[r]].connected
       THEN /\ browsers' = [browsers EXCEPT ![browserOf[r]].pages = @ - 1]
            /\ ops' = [ops EXCEPT ![r] =
                          Append(@, Op("page.close", bpIdx[r], 0, <<>>))]
       ELSE UNCHANGED <<browsers, ops>>
    /\ mapTouch' = 0
    /\ UNCHANGED <<args, shellVars, browserInstances, browserOf, launchOpts,
                   lookupHit, loopVars, diagVars>>

\* The awaited primitive rejects (a timeout, a navigation failure, a closed
\* browser): the catch of screenshotTool returns the failure shape.
Raise(r) ==
    /\ Rejectable(r)
    /\ result' = [result EXCEPT ![r] = Failure(RejectionMessage(r))]
    /\ pc' = [pc EXCEPT ![r] = "done"]
    /\ mapTouch' = 0
    /\ UNCHANGED <<args, shellVars, poolVars, loopVars, diagVars, ops>>

\* The page of request r is open with its listeners subscribed, and has
\* started a navigation.
Listening(r) ==
    /\ pc[r] \in {"setViewport", "setCookie", "goto", "action", "settle",
                  "evaluate", "screenshot", "close"}
    /\ ~(bpIdx[r] = 1 /\ pc[r] \in {"setViewport", "setCookie"})
    /\ ~(pc[r] = "close" /\ Bps(r) = <<>>)

\* page.on(kind, ...) has been called on the page of request r.
Subscribed(r, kind) ==
    \E n \in DOMAIN ops[r] :
        ops[r][n].op = CASE kind = "pageerror" -> "page.on:pageerror"
                         [] kind = "console" -> "page.on:console"
                         [] kind = "response" -> "page.on:response"
                         [] kind = "requestfailed" -> "page.on:requestfailed"

\* The page emits event e and its record is put at the head of the list.
PageEventPrepend(r, e, maxEvents) ==
    /\ Listening(r)
    /\ Connected(r)
    /\ Len(events[r]) < maxEvents
    /\ events' = [events EXCEPT ![r] = Append(@, e)]
    /\ pageErrors' = [pageErrors EXCEPT ![r] =
                         IF Subscribed(r, e.kind) THEN Listener(e) \o @ ELSE @]
    /\ mapTouch' = 0
    /\ UNCHANGED <<args, shellVars, pc, poolVars, loopVars, ops, result>>

\* The page emits event e: the listener subscribed to events of its kind
\* pushes its record.
PageEvent(r, e, maxEvents) ==
    /\ Listening(r)
    /\ Connected(r)
    /\ Len(events[r]) < maxEvents
    /\ events' = [events EXCEPT ![r] = Append(@, e)]
    /\ pageErrors' = [pageErrors EXCEPT ![r] =
                         IF Subscribed(r, e.kind) THEN @ \o Listener(e) ELSE @]
    /\ mapTouch' = 0
    /\ UNCHANGED <<args, shellVars, pc, poolVars, loopVars, ops, result>>

\* A browser process exits or loses its connection.
Disconnect(b) ==
    /\ b \in DOMAIN browsers
    /\ browsers[b].connected
    /\ browsers' = [browsers EXCEPT ![b].connected = FALSE, ![b].pages = 0]
    /\ mapTouch' = 0
    /\ UNCHANGED <<args, shellVars, pc, browserInstances, browserOf, launchOpts, lookupHit,
                   loopVars, diagVars, ops, result>>

\* ---------------------------------------------------------------- cleanup
\* A Map iterates its entries in insertion order: browserInstances.set on a
\* key the map holds keeps the entry's place, on an absent key it appends.  The
\* place of a key is therefore the handle of the last browser that was set
\* under it while the map did not hold it.
Stamp(key) ==
    CHOOSE b \in DOMAIN browsers :
        /\ browsers[b].key = key /\ browsers[b].fresh
        /\ \A c \in DOMAIN browsers :
               browsers[c].key = key /\ browsers[c].fresh => c <= b

\* The entries the iterator of browserInstances.values() has yet to yield
\* when the last one it yielded stands at place cursor: the iterator is live,
\* an entry appended during the loop is visited too.
Unvisited(cursor) == {k \in DOMAIN browserInstances : Stamp(k) > cursor}

\* The entry the iterator yields next.
NextEntry(cursor) ==
    CHOOSE k \in Unvisited(cursor) :
        \A j \in Unvisited(cursor) : Stamp(k) <= Stamp(j)

\* for (const browser of browserInstances.values()) { await browser.close() }
\* browserInstances.clear(): one turn of the loop from the iterator's place,
\* up to the next await or to the return.
CleanupLoop(cursor) ==
    IF Unvisited(cursor) = {}
    THEN /\ browserInstances' = <<>>
         /\ sweep' = [pc |-> "returned", cursor |-> cursor,
                      closing |-> NoHandle]
    ELSE /\ browserInstances' = browserInstances
         /\ sweep' = [pc |-> "closing", cursor |-> Stamp(NextEntry(cursor)),
                      closing |-> browserInstances[NextEntry(cursor)]]

\* cleanup() is called: with an empty map it returns at once, otherwise it
\* runs up to the first await browser.close().
Cleanup ==
    /\ sweep.pc = "idle"
    /\ IF DOMAIN browserInstances = {}
       THEN /\ sweep' = [sweep EXCEPT !.pc = "returned"]
            /\ UNCHANGED browserInstances
       ELSE CleanupLoop(0)
    /\ mapTouch' = 0
    /\ UNCHANGED <<args, tool, thrown, reply, pc, browsers, browserOf,
                   launchOpts, lookupHit, loopVars, diagVars, ops, result>>

\* The awaited browser.close() resolves: that browser process has exited, and
\* the loop goes on.
BrowserCloseOk ==
    /\ sweep.pc = "closing"
    /\ browsers' = [browsers EXCEPT ![sweep.closing].connected = FALSE,
                                    ![sweep.closing].pages = 0]
    /\ CleanupLoop(sweep.cursor)
    /\ mapTouch' = 0
    /\ UNCHANGED <<args, tool, thrown, reply, pc, browserOf, launchOpts,
                   lookupHit, loopVars, diagVars, ops, result>>

\* The awaited browser.close() rejects, as it may on a browser whose
\* connection is gone: cleanup has no try, the rejection leaves it and the
\* map is not cleared.
BrowserCloseFail ==
    /\ sweep.pc = "closing"
    /\ ~browsers[sweep.closing].connected
    /\ sweep' = [sweep EXCEPT !.pc = "thrown"]
    /\ mapTouch' = 0
    /\ UNCHANGED <<args, tool, thrown, reply, pc, poolVars, loopVars,
                   diagVars, ops, result>>

\* The awaited primitive rejects with an Error whose message is empty.
RaiseSilent(r) ==
    /\ Rejectable(r)
    /\ result' = [result EXCEPT ![r] =
                     Failure(IF pc[r] = "action"
                             THEN ActionError(Acts(r)[actIdx[r]].type, <<>>)
                             ELSE <<>>)]
    /\ pc' = [pc EXCEPT ![r] = "done"]
    /\ mapTouch' = 0
    /\ UNCHANGED <<args, shellVars, poolVars, loopVars, diagVars, ops>>

\* ------------------------------------------------ the CallTool handler
\* new McpError(code, message), thrown to the caller of the handler.
McpError(code, message) ==
    [kind |-> "error", code |-> code, message |-> message, content |-> <<>>]

\* return { content }
Content(blocks) ==
    [kind |-> "content", code |-> "", message |-> <<>>, content |-> blocks]

TextBlock(text) ==
    [type |-> "text", text |-> text, data |-> <<>>, mimeType |-> ""]

ImageBlock(data, mimeType) ==
    [type |-> "image", text |-> <<>>, data |-> data, mimeType |-> mimeType]

\* screenshot.screenshot.replace(/^data:image\/(png|jpeg);base64,/, ''): the
\* data URL is the tuple of its prefix and its payload.
StripDataPrefix(s) ==
    IF s # <<>> /\ s[1] \in {"data:image/png;base64,", "data:image/jpeg;base64,"}
    THEN Tail(s) ELSE s

\* String.prototype.toUpperCase on the format and type names of the model.
ToUpperCase(f) ==
    CASE f = "jpeg" -> "JPEG"
      [] f = "png" -> "PNG"
      [] f = "javascript" -> "JAVASCRIPT"
      [] f = "console" -> "CONSOLE"
      [] f = "network" -> "NETWORK"
      [] f = "security" -> "SECURITY"
      [] OTHER -> f

\* summaryText: the pieces of the template literals, in order.
SummaryText(a, res) ==
    LET es == res.errorSummary
        acts == IF a.given THEN OrDefault(a.actions, <<>>) ELSE <<>>
    IN <<"Successfully captured ", ToString(Len(res.screenshots)),
         " screenshot(s) for ",
         IF a.given /\ Truthy(a.url) THEN a.url ELSE "the requested URL">>
       \o (IF Len(acts) > 0
           THEN <<"Executed ", ToString(Len(acts)), " page action(s): ">>
                \o [i \in 1..Len(acts) |-> acts[i].type]
           ELSE <<>>)
       \o (IF res.sessionInfo # Absent
           THEN <<"Session: ", res.sessionInfo[1].sessionId>> ELSE <<>>)
       \o (IF es.totalErrors > 0 \/ es.totalWarnings > 0 \/ es.totalLogs > 0
           THEN <<"Page Activity Detected:">>
                \o (IF es.totalErrors > 0
                    THEN <<ToString(es.totalErrors), " error(s)">> ELSE <<>>)
                \o (IF es.totalWarnings > 0
                    THEN <<ToString(es.totalWarnings), " warning(s)">>
                    ELSE <<>>)
                \o (IF es.totalLogs > 0
                    THEN <<ToString(es.totalLogs), " console log(s)">>
                    ELSE <<>>)
                \o (IF es.hasJavaScriptErrors
                    THEN <<"JavaScript errors present">> ELSE <<>>)
                \o (IF es.hasNetworkErrors
                    THEN <<"Network/loading errors present">> ELSE <<>>)
                \o (IF es.hasConsoleLogs
                    THEN <<"Console logs available">> ELSE <<>>)
           ELSE <<"No errors, warnings, or console activity detected">>)

\* The keys of errorsByType, in the order the reduce inserts them.
RECURSIVE TypesOf(_)
TypesOf(pe) ==
    IF pe = <<>> THEN <<>>
    ELSE LET t == TypesOf(SubSeq(pe, 1, Len(pe) - 1))
             ty == pe[Len(pe)].type
         IN IF \E i \in DOMAIN t : t[i] = ty THEN t ELSE Append(t, ty)

\* The lines errorDetails gets for the records of one type.
RECURSIVE DetailLines(_, _)
DetailLines(pe, ty) ==
    IF pe = <<>> THEN <<>>
    ELSE LET e == pe[1] IN
         (IF e.type = ty
          THEN <<IF e.level = "error" THEN "[error] " ELSE "[warning] ">>
               \o e.message
               \o (IF Truthy(e.url) THEN <<"URL: ", e.url>> ELSE <<>>)
               \o (IF e.statusCode # 0
                   THEN <<"[", ToString(e.statusCode), "]">> ELSE <<>>)
          ELSE <<>>)
         \o DetailLines(Tail(pe), ty)

\* One group of errorDetails: its heading and its lines.
RECURSIVE DetailGroups(_, _)
DetailGroups(pe, types) ==
    IF types = <<>> THEN <<>>
    ELSE <<ToUpperCase(types[1]), " ISSUES (",
           ToString(Len(SelectSeq(pe, LAMBDA e : e.type = types[1]))), "):">>
         \o DetailLines(pe, types[1])
         \o DetailGroups(pe, Tail(types))

\* errorDetails
ErrorDetails(pe) ==
    <<"Detailed Error Report:">> \o DetailGroups(pe, TypesOf(pe))

\* The caption and the image of one capture.
CaptureBlocks(shot) ==
    <<TextBlock(<<ToString(shot.width), "px viewport (",
                  ToUpperCase(shot.format), ")">>),
      ImageBlock(StripDataPrefix(shot.screenshot),
                 IF shot.format = "jpeg" THEN "image/jpeg" ELSE "image/png")>>

RECURSIVE AllCaptureBlocks(_)
AllCaptureBlocks(shots) ==
    IF shots = <<>> THEN <<>>
    ELSE CaptureBlocks(shots[1]) \o AllCaptureBlocks(Tail(shots))

\* A content array with the detailed report always present and every image
\* ahead of its caption.
ContentOfSwapped(a, res) ==
    <<TextBlock(SummaryText(a, res)), TextBlock(ErrorDetails(res.pageErrors))>>
    \o [i \in 1..(2 * Len(res.screenshots)) |->
           CaptureBlocks(res.screenshots[(i + 1) \div 2])[IF i % 2 = 1 THEN 2
                                                          ELSE 1]]

\* The content array the handler builds from a successful result.
ContentOf(a, res) ==
    <<TextBlock(SummaryText(a, res))>>
    \o (IF Len(res.pageErrors) > 0
        THEN <<TextBlock(ErrorDetails(res.pageErrors))>> ELSE <<>>)
    \o AllCaptureBlocks(res.screenshots)

\* A handler that reports a failed capture as any other exception: wrapped
\* by its catch.
HandlerReplyWrapped(r) ==
    IF pc[r] = "thrown" \/ ~result[r].success
    THEN McpError("InternalError",
                  <<"Tool execution failed: ">> \o thrown[r] \o result[r].error)
    ELSE Content(ContentOf(args[r], result[r]))

\* What the handler does once the promise of screenshotTool has settled: an
\* exception of screenshotTool is wrapped by the catch, a failure result is
\* thrown as McpError and rethrown unchanged, a success becomes content.
HandlerReply(r) ==
    IF pc[r] = "thrown"
    THEN McpError("InternalError", <<"Tool execution failed: ">> \o thrown[r])
    ELSE IF ~result[r].success
    THEN McpError("InternalError",
                  IF result[r].error # <<>> THEN result[r].error
                  ELSE <<"Screenshot capture failed">>)
    ELSE Content(ContentOf(args[r], result[r]))

\* The handler resumes after await screenshotTool(...) and settles.
Respond(r) ==
    /\ pc[r] \in {"done", "thrown"}
    /\ reply' = [reply EXCEPT ![r] = HandlerReply(r)]
    /\ pc' = [pc EXCEPT ![r] = "replied"]
    /\ mapTouch' = 0
    /\ UNCHANGED <<args, tool, thrown, sweep, poolVars, loopVars, diagVars, ops,
                   result>>

\* A handler that hands every call to screenshotTool, whatever its name.
CallToolAnyName(r) == Invoke(r)

\* The handler receives a tools/call request: the screenshot tool runs
\* screenshotTool up to its first suspension, any other name is refused at
\* once.
CallTool(r) ==
    IF tool[r] = "screenshot"
    THEN Invoke(r)
    ELSE /\ pc[r] = "idle"
         /\ reply' = [reply EXCEPT ![r] =
                         McpError("MethodNotFound",
                                  <<"Unknown tool: ", tool[r]>>)]
         /\ pc' = [pc EXCEPT ![r] = "replied"]
         /\ mapTouch' = 0
         /\ UNCHANGED <<args, tool, thrown, sweep, poolVars, loopVars, diagVars, ops,
                        result>>

\* ------------------------------------------------------ the specifications
\* A request that gives only its url.
BaseArgs ==
    [given |-> TRUE, url |-> "https://example.com/", breakpoints |-> Absent,
     headless |-> Absent, maxWidth |-> Absent, imageFormat |-> Absent,
     quality |-> Absent, actions |-> Absent, sessionId |-> UNDEF,
     userDataDir |-> UNDEF, cookies |-> Absent]

\* The argument object is absent: request.params.arguments is undefined.
NoArgs == [BaseArgs EXCEPT !.given = FALSE, !.url = UNDEF]

\* No reply yet.
NoReply == [kind |-> "none", code |-> "", message |-> <<>>, content |-> <<>>]

\* The state before any request has run: an empty session map, no browser.
\* issued is the set of tool calls that will be made, a their arguments and
\* t the tool each of them names.
InitCall(a, issued, t) ==
    /\ args = a
    /\ tool = t
    /\ thrown = [r \in Reqs |-> <<>>]
    /\ reply = [r \in Reqs |-> NoReply]
    /\ pc = [r \in Reqs |-> IF r \in issued THEN "idle" ELSE "unissued"]
    /\ browserInstances = <<>>
    /\ browsers = <<>>
    /\ browserOf = [r \in Reqs |-> NoHandle]
    /\ launchOpts = [r \in Reqs |-> NoLaunch]
    /\ lookupHit = [r \in Reqs |-> NoHandle]
    /\ mapTouch = 0
    /\ bpIdx = [r \in Reqs |-> 0]
    /\ ckIdx = [r \in Reqs |-> 0]
    /\ actIdx = [r \in Reqs |-> 0]
    /\ actPrims = [r \in Reqs |-> <<>>]
    /\ results = [r \in Reqs |-> <<>>]
    /\ contentSize = [r \in Reqs |-> [width |-> 0, height |-> 0]]
    /\ pageErrors = [r \in Reqs |-> <<>>]
    /\ events = [r \in Reqs |-> <<>>]
    /\ ops = [r \in Reqs |-> <<>>]
    /\ result = [r \in Reqs |-> NoResult]
    /\ sweep = NoSweep

\* The same with every call naming the screenshot tool.
InitWith(a, issued) == InitCall(a, issued, [r \in Reqs |-> "screenshot"])

\* The browser pool under concurrent requests: every request is made, each
\* with or without a url, a session identifier, a profile directory and a
\* headless flag, and all of them capture one breakpoint.
PoolArgs ==
    {[BaseArgs EXCEPT !.url = u, !.breakpoints = Some(<<375>>),
                      !.headless = h, !.sessionId = s, !.userDataDir = d] :
        u \in {"https://example.com/", UNDEF, ""},
        h \in {Absent, Some(FALSE)},
        s \in {UNDEF, "", "s1", "default"},
        d \in {UNDEF, "/profiles/a"}}

Init == \E a \in [Reqs -> PoolArgs] : InitWith(a, Reqs)

Next ==
    \/ \E r \in Reqs : Invoke(r)
    \/ \E r \in Reqs : LaunchOk(r)
    \/ \E r \in Reqs : NewPageOk(r)
    \/ \E r \in Reqs : SetViewportOk(r)
    \/ \E r \in Reqs : GotoOk(r)
    \/ \E r \in Reqs : EvaluateOk(r, InitialViewportHeight)
    \/ \E r \in Reqs : ScreenshotOk(r)
    \/ \E r \in Reqs : CloseOk(r)
    \/ \E r \in Reqs : Raise(r)
    \/ \E b \in DOMAIN browsers : Disconnect(b)

Spec == Init /\ [][Next]_vars

\* cleanup beside concurrent requests: two requests, each under the default
\* session or under session s1, and cleanup called at any moment.
CleanupArgs ==
    {[BaseArgs EXCEPT !.breakpoints = Some(<<375>>), !.sessionId = s] :
        s \in {UNDEF, "s1"}}

InitCleanup == \E a \in [Reqs -> CleanupArgs] : InitWith(a, Reqs)

NextCleanup ==
    \/ Next
    \/ Cleanup
    \/ BrowserCloseOk
    \/ BrowserCloseFail

SpecCleanup == InitCleanup /\ [][NextCleanup]_vars

\* ------------------------------------------------------------- the pool
\* The browser processes launched under a key that are still running.
LiveBrowsers(key) ==
    {b \in DOMAIN browsers : browsers[b].key = key /\ browsers[b].connected}

\* The browsers request r launched.
LaunchedBy(r) == {b \in DOMAIN browsers : browsers[b].launchedBy = r}

KeyOf(r) == sessionKey(args[r].sessionId)

\* C1: in every reachable state, concurrent requests included, at most one
\* live browser process exists for any session key.
C1_AtMostOneLiveBrowserPerKey ==
    \A r \in Reqs : Cardinality(LiveBrowsers(KeyOf(r))) <= 1

\* C2: while an acquire is between its lookup and the store of the handle
\* it launched, no step of another request reads or writes the session map.
C2_AcquireAtomic ==
    \A r \in Reqs : pc[r] = "launch" => mapTouch \in {0, r}

\* C3: when the browser stored under the key of a request reports connected
\* as the request acquires, the acquire returns that very handle and
\* launches nothing, whatever headless and userDataDir the request carries,
\* and the entry of the map is the same handle after the acquire.
C3_ConnectedBrowserReused ==
    \A r \in Reqs :
        lookupHit[r] # NoHandle =>
            /\ browserOf[r] = lookupHit[r]
            /\ LaunchedBy(r) = {}
            /\ pc[r] # "launch"
            /\ mapTouch = r =>
                   /\ KeyOf(r) \in DOMAIN browserInstances
                   /\ browserInstances[KeyOf(r)] = lookupHit[r]

\* A request has just reused, after the request that launched it returned,
\* a browser launched with another headless flag and another userDataDir.
C3_Witness ==
    \E r \in Reqs :
        /\ lookupHit[r] # NoHandle
        /\ pc[r] = "newPage"
        /\ mapTouch = r
        /\ LET l == browsers[lookupHit[r]].launchedBy IN
           /\ pc[l] = "done"
           /\ args[l].headless # args[r].headless
           /\ args[l].userDataDir # args[r].userDataDir

C8_NoSessionNoProfile ==
    \A r \in Reqs :
        ~Truthy(args[r].sessionId) /\ browserOf[r] # NoHandle =>
            browsers[browserOf[r]].userDataDir = Absent

\* C8 as amended: the browser that serves a request without session
\* identifier has a profile directory only if the request that launched it
\* (the request itself, or the earlier request under the key "default"
\* whose browser it reuses) gave userDataDir or the literal session
\* identifier "default"; a browser the request launches itself has its own
\* userDataDir as profile directory, and none when it gave none.
C8_NoSessionProfileOnlyExplicit ==
    \A r \in Reqs :
        ~Truthy(args[r].sessionId) /\ browserOf[r] # NoHandle =>
            LET b == browsers[browserOf[r]]
                l == b.launchedBy
            IN /\ b.userDataDir # Absent =>
                      \/ Truthy(args[l].userDataDir)
                      \/ args[l].sessionId = "default"
               /\ l = r =>
                      b.userDataDir = IF Truthy(args[r].userDataDir)
                                      THEN Some(<<args[r].userDataDir>>)
                                      ELSE Absent

\* After an earlier request with a session has returned, a request with
\* neither session identifier nor userDataDir is served by a browser it
\* launched itself, without profile directory.
C8_Witness ==
    \E r \in Reqs :
        /\ ~Truthy(args[r].sessionId) /\ ~Truthy(args[r].userDataDir)
        /\ browserOf[r] # NoHandle
        /\ browsers[browserOf[r]].launchedBy = r
        /\ browsers[browserOf[r]].userDataDir = Absent
        /\ \E q \in Reqs \ {r} :
              /\ Truthy(args[q].sessionId) /\ pc[q] = "done"
              /\ browserOf[q] # NoHandle /\ browserOf[q] < browserOf[r]

\* The request failed after getBrowser had returned it a browser.
FailedWithBrowser(r) ==
    pc[r] = "done" /\ ~result[r].success /\ browserOf[r] # NoHandle

\* C12: a failure of a request that holds a browser tears nothing down.  The
\* failing request never calls a close of the browser; the step in which it
\* fails leaves the session map and every browser process as they were; and
\* a later request with the same key, acquiring while the entry of the map
\* still reports connected, is handed that entry's handle and launches
\* nothing.
C12_FailureKeepsBrowser ==
    /\ [](\A r \in Reqs : \A n \in DOMAIN ops[r] :
            ops[r][n].op \notin {"browser.close", "browser.disconnect"})
    /\ [][\A r \in Reqs :
            pc[r] # "done" /\ FailedWithBrowser(r)' =>
                /\ browserInstances' = browserInstances
                /\ browsers' = browsers
                /\ mapTouch' = 0]_vars
    /\ [][\A r \in Reqs : \A q \in Reqs \ {r} :
            /\ FailedWithBrowser(r)
            /\ pc[q] = "idle" /\ pc'[q] \notin {"idle", "done", "thrown"}
            /\ KeyOf(q) = KeyOf(r)
            /\ HasConnected(KeyOf(r))
            => /\ browserOf'[q] = browserInstances[KeyOf(r)]
               /\ pc'[q] = "newPage"
               /\ browsers' = browsers
               /\ browserInstances' = browserInstances]_vars

\* A request failed while it held the browser it had launched, and the next
\* request with the same key has just been handed that very browser.
C12_Witness ==
    \E r \in Reqs : \E q \in Reqs \ {r} :
        /\ FailedWithBrowser(r)
        /\ browsers[browserOf[r]].launchedBy = r
        /\ KeyOf(q) = KeyOf(r)
        /\ pc[q] = "newPage" /\ mapTouch = q
        /\ lookupHit[q] = browserOf[r]
        /\ browserOf[q] = browserOf[r]

\* ---------------------------------------------------- the capture pipeline
\* One request on its own: every list of at most MaxBreakpoints widths (the
\* empty list and no list included), with and without maxWidth and
\* imageFormat; the page measures one of two content heights.
Widths == {375, 1280, 1920}
Heights == {InitialViewportHeight, 2340}

SeqsUpTo(S, n) == UNION {[1..k -> S] : k \in 0..n}

ViewportArgs ==
    {[BaseArgs EXCEPT !.breakpoints = b, !.maxWidth = m, !.imageFormat = f,
                      !.sessionId = s] :
        b \in {Absent} \cup {Some(w) : w \in SeqsUpTo(Widths, MaxBreakpoints)},
        m \in {Absent, Some(768), Some(1280)},
        f \in {Absent, Some("png")},
        s \in {UNDEF, "s1"}}

\* Only request 1 is made.
Single(a) == [r \in Reqs |-> IF r = 1 THEN a ELSE BaseArgs]

InitViewports == \E a \in ViewportArgs : InitWith(Single(a), {1})

NextViewports ==
    \/ \E r \in Reqs : Invoke(r)
    \/ \E r \in Reqs : LaunchOk(r)
    \/ \E r \in Reqs : NewPageOk(r)
    \/ \E r \in Reqs : SetViewportOk(r)
    \/ \E r \in Reqs : GotoOk(r)
    \/ \E r \in Reqs, h \in Heights : EvaluateOk(r, h)
    \/ \E r \in Reqs : ScreenshotOk(r)
    \/ \E r \in Reqs : CloseOk(r)
    \/ \E r \in Reqs : Raise(r)
    \/ \E b \in DOMAIN browsers : Disconnect(b)

SpecViewports == InitViewports /\ [][NextViewports]_vars

\* The request returned a successful result.
Succeeded(r) == pc[r] = "done" /\ result[r].success

\* C5: a successful result of a request with N viewport widths holds
\* exactly N captures, the i-th one taken at the i-th requested width.
C5_OneCapturePerWidthInOrder ==
    \A r \in Reqs :
        Succeeded(r) =>
            /\ Len(result[r].screenshots) = Len(Bps(r))
            /\ \A i \in 1..Len(Bps(r)) :
                  /\ result[r].screenshots[i].metadata.viewport.width = Bps(r)[i]
                  /\ result[r].screenshots[i].screenshot[2] = <<"base64", i>>

\* A request with two different widths succeeded.
C5_Witness ==
    \E r \in Reqs :
        /\ Succeeded(r)
        /\ Len(Bps(r)) = 2 /\ Bps(r)[1] > Bps(r)[2]
        /\ Len(result[r].screenshots) = 2

\* C6: a capture of requested width w under maxWidth m has width m,
\* optimized = true and originalSize.width = w when w > m, and width w,
\* optimized = false and no originalSize when w <= m; in both cases
\* metadata.viewport.width = w.
C6_WidthClamp ==
    \A r \in Reqs :
        Succeeded(r) =>
            \A i \in 1..Len(result[r].screenshots) :
                LET c == result[r].screenshots[i]
                    w == Bps(r)[i]
                    m == ArgMaxWidth(args[r])
                IN /\ c.metadata.viewport.width = w
                   /\ w > m => /\ c.width = m
                               /\ c.metadata.optimized
                               /\ c.metadata.originalSize # Absent
                               /\ c.metadata.originalSize[1].width = w
                   /\ w <= m => /\ c.width = w
                                /\ ~c.metadata.optimized
                                /\ c.metadata.originalSize = Absent

\* One successful result holds a capture wider than maxWidth and a capture
\* of exactly maxWidth.
C6_Witness ==
    \E r \in Reqs :
        /\ Succeeded(r)
        /\ Len(result[r].screenshots) = 2
        /\ Bps(r)[1] > ArgMaxWidth(args[r])
        /\ Bps(r)[2] = ArgMaxWidth(args[r])
        /\ result[r].screenshots[1].metadata.optimized
        /\ ~result[r].screenshots[2].metadata.optimized

\* C7: a request whose breakpoints list is empty gets the defaults: a
\* successful result holds 3 captures, at widths 375, 768 and 1280 in that
\* order, none of them optimized under the default maxWidth.
C7_EmptyBreakpointsGetDefaults ==
    \A r \in Reqs :
        Succeeded(r) /\ args[r].breakpoints = Some(<<>>)
                     /\ args[r].maxWidth = Absent =>
            /\ Len(result[r].screenshots) = 3
            /\ \A i \in 1..3 :
                  /\ result[r].screenshots[i].width = DEFAULT_BREAKPOINTS[i]
                  /\ ~result[r].screenshots[i].metadata.optimized

\* ------------------------------------------------------ the action executor
Action(type, selector, text, value, x, y, url) ==
    [type |-> type, selector |-> selector, text |-> text, value |-> value,
     x |-> x, y |-> y, url |-> url]

\* One action of every type, complete, and the incomplete and unknown ones.
ActionSamples ==
    {Action("click", "#go", UNDEF, UNDEF, Absent, Absent, UNDEF),
     Action("click", UNDEF, UNDEF, UNDEF, Absent, Absent, UNDEF),
     Action("press", "#go", UNDEF, UNDEF, Absent, Absent, UNDEF),
     Action("type", "#q", "abc", UNDEF, Absent, Absent, UNDEF),
     Action("type", "#q", "", UNDEF, Absent, Absent, UNDEF),
     Action("clear", "#q", UNDEF, UNDEF, Absent, Absent, UNDEF),
     Action("clear", UNDEF, UNDEF, UNDEF, Absent, Absent, UNDEF),
     Action("scroll", UNDEF, UNDEF, UNDEF, Some(0), Some(500), UNDEF),
     Action("scroll", "#foot", UNDEF, UNDEF, Some(0), Some(500), UNDEF),
     Action("scroll", "#foot", UNDEF, UNDEF, Some(0), Absent, UNDEF),
     Action("scroll", UNDEF, UNDEF, UNDEF, Absent, Absent, UNDEF),
     Action("hover", "#menu", UNDEF, UNDEF, Absent, Absent, UNDEF),
     Action("hover", "", UNDEF, UNDEF, Absent, Absent, UNDEF),
     Action("select", "#opt", UNDEF, "b", Absent, Absent, UNDEF),
     Action("select", "#opt", UNDEF, UNDEF, Absent, Absent, UNDEF),
     Action("wait", UNDEF, UNDEF, UNDEF, Absent, Absent, UNDEF),
     Action("waitForElement", "#late", UNDEF, UNDEF, Absent, Absent, UNDEF),
     Action("waitForElement", UNDEF, UNDEF, UNDEF, Absent, Absent, UNDEF),
     Action("navigate", UNDEF, UNDEF, UNDEF, Absent, Absent, "https://y.test/"),
     Action("navigate", UNDEF, UNDEF, UNDEF, Absent, Absent, UNDEF)}

\* One request on its own, with every list of at most MaxActions actions
\* and with no, one or two breakpoints.
ActionArgs ==
    {[BaseArgs EXCEPT !.breakpoints = Some(b), !.actions = Some(a)] :
        b \in {<<>>, <<375>>, <<375, 768>>},
        a \in SeqsUpTo(ActionSamples, MaxActions)}

InitActions == \E a \in ActionArgs : InitWith(Single(a), {1})

NextActions ==
    \/ \E r \in Reqs : Invoke(r)
    \/ \E r \in Reqs : LaunchOk(r)
    \/ \E r \in Reqs : NewPageOk(r)
    \/ \E r \in Reqs : SetViewportOk(r)
    \/ \E r \in Reqs : GotoOk(r)
    \/ \E r \in Reqs : ActionPrimOk(r)
    \/ \E r \in Reqs : SettleOk(r)
    \/ \E r \in Reqs : EvaluateOk(r, InitialViewportHeight)
    \/ \E r \in Reqs : ScreenshotOk(r)
    \/ \E r \in Reqs : CloseOk(r)
    \/ \E r \in Reqs : Raise(r)

SpecActions == InitActions /\ [][NextActions]_vars

\* The action types the switch of executePageActions knows.
KnownTypes ==
    {"click", "type", "clear", "scroll", "hover", "select", "wait",
     "waitForElement", "navigate"}

\* An action of unrecognized type, or a click without selector.
BadAction(a) ==
    \/ a.type \notin KnownTypes
    \/ a.type = "click" /\ ~Truthy(a.selector)

BadIndexes(r) == {i \in 1..Len(Acts(r)) : BadAction(Acts(r)[i])}

FirstBad(r) == CHOOSE i \in BadIndexes(r) : \A j \in BadIndexes(r) : i <= j

\* C9: a request whose action sequence holds an action of unrecognized
\* type, or a click without selector, fails; when the executor stops at
\* that action the error message names its type; and no primitive of that
\* action or of an action after it is ever issued, in any iteration.
C9_BadActionFailsRequest ==
    \A r \in Reqs :
        pc[r] = "done" /\ BadIndexes(r) # {} =>
            LET j == FirstBad(r) IN
            /\ ~result[r].success
            /\ actIdx[r] = j =>
                   /\ Len(result[r].error) >= 2
                   /\ result[r].error[1] = "Failed to execute action "
                   /\ result[r].error[2] = Acts(r)[j].type
            /\ \A n \in DOMAIN ops[r] : ops[r][n].act < j

\* ------------------------------------------------------------- diagnostics
\* The page events of the model: an uncaught error, console messages of
\* five console types, responses of five statuses and failed requests with
\* and without a failure.
EventSamples ==
    {Event("pageerror", "", 0, "ReferenceError: x is not defined")}
    \cup {Event("console", t, 0, "message") :
            t \in {"error", "assert", "warning", "log", "debug"}}
    \cup {Event("response", "", st, "") : st \in {200, 304, 404, 500, 503}}
    \cup {[Event("response", "", 404, "") EXCEPT !.url = "https://y.test/"]}
    \cup {Event("requestfailed", "", 0, t) :
            t \in {"net::ERR_FAILED", "blocked by CORS policy", UNDEF}}

DiagArgs == [BaseArgs EXCEPT !.breakpoints = Some(<<375>>)]

InitDiag == InitWith(Single(DiagArgs), {1})

NextDiag ==
    \/ \E r \in Reqs : Invoke(r)
    \/ \E r \in Reqs : LaunchOk(r)
    \/ \E r \in Reqs : NewPageOk(r)
    \/ \E r \in Reqs : SetViewportOk(r)
    \/ \E r \in Reqs : GotoOk(r)
    \/ \E r \in Reqs : EvaluateOk(r, InitialViewportHeight)
    \/ \E r \in Reqs : ScreenshotOk(r)
    \/ \E r \in Reqs : CloseOk(r)
    \/ \E r \in Reqs : Raise(r)
    \/ \E r \in Reqs, e \in EventSamples : PageEvent(r, e, MaxEvents)

SpecDiag == InitDiag /\ [][NextDiag]_vars

\* During the run of request r the page raised one uncaught script error,
\* received one response of status 404, and emitted nothing else.
OneErrorOne404(r) ==
    /\ Len(events[r]) = 2
    /\ \E i \in 1..2 : events[r][i].kind = "pageerror"
    /\ \E i \in 1..2 : events[r][i].kind = "response" /\ events[r][i].status = 404

\* C10 as claimed: after one script error and one 404 response the summary
\* of a successful result has hasJavaScriptErrors, hasNetworkErrors and
\* totalErrors >= 1.
C10_ScriptErrorAnd404Flags ==
    \A r \in Reqs :
        Succeeded(r) /\ OneErrorOne404(r) =>
            /\ result[r].errorSummary.hasJavaScriptErrors
            /\ result[r].errorSummary.hasNetworkErrors
            /\ result[r].errorSummary.totalErrors >= 1

\* C10 as amended: after one script error and one 404 response the summary
\* of a successful result has hasJavaScriptErrors = true, hasNetworkErrors
\* = false, totalErrors = 1 and totalWarnings = 1: the 404 is recorded as a
\* network warning, which the network flag does not count.
C10_ScriptErrorAnd404Summary ==
    \A r \in Reqs :
        Succeeded(r) /\ OneErrorOne404(r) =>
            /\ result[r].errorSummary.hasJavaScriptErrors
            /\ ~result[r].errorSummary.hasNetworkErrors
            /\ result[r].errorSummary.totalErrors = 1
            /\ result[r].errorSummary.totalWarnings = 1
            /\ result[r].errorSummary.totalLogs = 0
            /\ Len(result[r].pageErrors) = 2

\* A request succeeded after exactly one script error and one 404.
C10_Witness ==
    \E r \in Reqs :
        /\ Succeeded(r) /\ OneErrorOne404(r)
        /\ result[r].errorSummary.totalErrors = 1

\* -------------------------------------------------------- session metadata
\* C14: a successful result carries session metadata exactly when the
\* request gave a session identifier (a request with only userDataDir
\* carries none); the metadata names that identifier and its persistence
\* flag is true.
C14_SessionInfoIffSessionId ==
    \A r \in Reqs :
        pc[r] = "done" /\ result[r].success =>
            /\ result[r].sessionInfo # Absent <=> Truthy(args[r].sessionId)
            /\ result[r].sessionInfo # Absent =>
                  /\ result[r].sessionInfo[1].sessionId = args[r].sessionId
                  /\ result[r].sessionInfo[1].persistent

\* One request succeeded with userDataDir only and carries no metadata, and
\* another succeeded with a session identifier and carries it.
C14_Witness ==
    \E r \in Reqs : \E q \in Reqs \ {r} :
        /\ pc[r] = "done" /\ result[r].success
        /\ ~Truthy(args[r].sessionId) /\ Truthy(args[r].userDataDir)
        /\ result[r].sessionInfo = Absent
        /\ pc[q] = "done" /\ result[q].success
        /\ args[q].sessionId = "s1"
        /\ result[q].sessionInfo # Absent

\* ------------------------------------------------------- failing requests
\* One request on its own with no, one or two breakpoints and with no
\* action, a click, or an action the executor refuses; the page emits at
\* most one event, and any awaited primitive may reject.
FailureActions ==
    {<<>>,
     <<Action("click", "#go", UNDEF, UNDEF, Absent, Absent, UNDEF)>>,
     <<Action("press", "#go", UNDEF, UNDEF, Absent, Absent, UNDEF)>>}

FailureArgs ==
    {[BaseArgs EXCEPT !.breakpoints = Some(b), !.actions = Some(a),
                      !.sessionId = s] :
        b \in SeqsUpTo({375, 1920}, MaxBreakpoints),
        a \in FailureActions,
        s \in {UNDEF, "s1"}}

InitFailure == \E a \in FailureArgs : InitWith(Single(a), {1})

NextFailure ==
    \/ \E r \in Reqs : Invoke(r)
    \/ \E r \in Reqs : LaunchOk(r)
    \/ \E r \in Reqs : NewPageOk(r)
    \/ \E r \in Reqs : SetViewportOk(r)
    \/ \E r \in Reqs : GotoOk(r)
    \/ \E r \in Reqs : ActionPrimOk(r)
    \/ \E r \in Reqs : SettleOk(r)
    \/ \E r \in Reqs : EvaluateOk(r, InitialViewportHeight)
    \/ \E r \in Reqs : ScreenshotOk(r)
    \/ \E r \in Reqs : CloseOk(r)
    \/ \E r \in Reqs : Raise(r)
    \/ \E r \in Reqs, e \in EventSamples : PageEvent(r, e, 1)

SpecFailure == InitFailure /\ [][NextFailure]_vars

\* The positions of a request inside an iteration of the breakpoint loop.
InIteration ==
    {"setViewport", "setCookie", "goto", "action", "settle", "evaluate",
     "screenshot"}

\* The failure shape without its message.
EmptyFailure(res) ==
    /\ ~res.success
    /\ res.screenshots = <<>>
    /\ res.pageErrors = <<>>
    /\ res.errorSummary = Failure(<<>>).errorSummary
    /\ res.sessionInfo = Absent

\* C11: a request fails atomically.  A returned result is either a success
\* holding a capture for every breakpoint, or a failure with one message,
\* no screenshots, no diagnostics and an all-zero, all-false summary; and a
\* request that leaves an iteration of the loop by returning (a step raised
\* in iteration k, whatever was captured before) returns such a failure.
C11_FailureAtomic ==
    /\ [](\A r \in Reqs :
            pc[r] = "done" =>
                \/ result[r].success
                      /\ Len(result[r].screenshots) = Len(Bps(r))
                \/ EmptyFailure(result[r]) /\ result[r].error # <<>>)
    /\ [][\A r \in Reqs :
            pc[r] \in InIteration /\ pc'[r] = "done" =>
                EmptyFailure(result'[r])]_vars

\* A request failed in its second iteration, after one capture was pushed
\* and a diagnostic was collected.
C11_Witness ==
    \E r \in Reqs :
        /\ pc[r] = "done" /\ ~result[r].success
        /\ bpIdx[r] = 2 /\ Len(results[r]) = 1
        /\ pageErrors[r] # <<>>
        /\ result[r].screenshots = <<>>

\* ------------------------------------------------------------ tool calls
\* One tools/call request on its own: the screenshot tool or another name,
\* with no argument object, without url, or with a url and no, an empty or
\* a two-width list of breakpoints, either image format, a session
\* identifier that is absent, a string or a number, and with or without a
\* profile directory.  The page emits at most MaxShellEvents events and any
\* awaited primitive may reject, with or without a message.
MaxShellEvents == 2

ToolNames == {"screenshot", "pdf"}

ShellEvents ==
    {Event("pageerror", "", 0, "ReferenceError: x is not defined"),
     Event("console", "log", 0, "message"),
     Event("response", "", 404, "")}

ShellArgs ==
    {NoArgs} \cup
    {[BaseArgs EXCEPT !.url = u, !.breakpoints = b, !.imageFormat = f,
                      !.sessionId = s, !.userDataDir = d] :
        u \in {"https://example.com/", UNDEF},
        b \in {Absent, Some(<<>>), Some(<<1920, 375>>)},
        f \in {Absent, Some("png")},
        s \in {UNDEF, "s1", "Number(123)"},
        d \in {UNDEF, "/profiles/a"}}

InitShell ==
    \E a \in ShellArgs, t \in ToolNames :
        InitCall(Single(a), {1}, [r \in Reqs |-> t])

NextShell ==
    \/ \E r \in Reqs : CallTool(r)
    \/ \E r \in Reqs : LaunchOk(r)
    \/ \E r \in Reqs : NewPageOk(r)
    \/ \E r \in Reqs : SetViewportOk(r)
    \/ \E r \in Reqs : GotoOk(r)
    \/ \E r \in Reqs : EvaluateOk(r, InitialViewportHeight)
    \/ \E r \in Reqs : ScreenshotOk(r)
    \/ \E r \in Reqs : CloseOk(r)
    \/ \E r \in Reqs : Raise(r)
    \/ \E r \in Reqs : RaiseSilent(r)
    \/ \E r \in Reqs, e \in ShellEvents : PageEvent(r, e, MaxShellEvents)
    \/ \E r \in Reqs : Respond(r)

SpecShell == InitShell /\ [][NextShell]_vars

\* screenshotTool has settled for call r: it returned or it threw.
Settled(r) == pc[r] \in {"done", "thrown", "replied"} /\ tool[r] = "screenshot"

\* C13: whatever argument value the handler passes, the absent argument
\* object included, and whichever step raises, screenshotTool returns a
\* result of the failure shape and never lets an exception reach its caller.
C13_AllErrorsNormalized ==
    \A r \in Reqs :
        Settled(r) =>
            /\ thrown[r] = <<>>
            /\ pc[r] # "thrown"
            /\ result[r].success \/ EmptyFailure(result[r])

\* The handler has answered the screenshot call r from a successful result.
RepliedSuccess(r) ==
    /\ pc[r] = "replied" /\ tool[r] = "screenshot"
    /\ thrown[r] = <<>> /\ result[r].success

\* C15: on a successful capture with N screenshots the content is one
\* summary text block, then one detailed diagnostics text block exactly
\* when the diagnostics list is not empty, then for each capture in result
\* order a caption text block followed at once by an image block, whose
\* MIME type is image/jpeg for the format jpeg and image/png otherwise and
\* whose data is the capture's base64 payload without the data-URL prefix:
\* 1 + [diagnostics not empty] + 2N blocks.
C15_ContentSequence ==
    \A r \in Reqs :
        RepliedSuccess(r) =>
            LET c == reply[r].content
                shots == result[r].screenshots
                d == IF result[r].pageErrors # <<>> THEN 1 ELSE 0
            IN /\ reply[r].kind = "content"
               /\ Len(c) = 1 + d + 2 * Len(shots)
               /\ c[1].type = "text"
               /\ c[1].text[1] = "Successfully captured "
               /\ d = 1 => /\ c[2].type = "text"
                           /\ c[2].text[1] = "Detailed Error Report:"
               /\ \A i \in 1..Len(shots) :
                     /\ c[d + 2 * i].type = "text"
                     /\ c[d + 2 * i].text[1] = ToString(shots[i].width)
                     /\ c[d + 2 * i].text[2] = "px viewport ("
                     /\ c[d + 2 * i + 1].type = "image"
                     /\ c[d + 2 * i + 1].mimeType =
                            IF shots[i].format = "jpeg" THEN "image/jpeg"
                            ELSE "image/png"
                     /\ c[d + 2 * i + 1].data = <<shots[i].screenshot[2]>>
                     /\ c[d + 2 * i + 1].data = <<<<"base64", i>>>>

\* The handler answered with six blocks: two captures and a diagnostics
\* report.
C15_Witness ==
    \E r \in Reqs :
        /\ RepliedSuccess(r)
        /\ Len(result[r].screenshots) = 2
        /\ result[r].pageErrors # <<>>
        /\ Len(reply[r].content) = 6
        /\ reply[r].content[6].type = "image"

\* screenshotTool returned a failure result to the handler, which answered.
RepliedFailure(r) ==
    /\ pc[r] = "replied" /\ tool[r] = "screenshot"
    /\ thrown[r] = <<>> /\ ~result[r].success

C17_InvalidParamsCode ==
    \A r \in Reqs :
        /\ pc[r] = "replied" /\ tool[r] = "screenshot"
        /\ ~args[r].given \/ ~Truthy(args[r].url)
        => reply[r].kind = "error" /\ reply[r].code = "InvalidParams"

\* ------------------------------------------------------------- tool names
\* Two tools/call requests in flight together, each naming the screenshot
\* tool or another tool, both with the arguments of a one-breakpoint capture
\* in the session "s1".
ToolsArgs == [BaseArgs EXCEPT !.breakpoints = Some(<<375>>), !.sessionId = "s1"]

InitTools ==
    \E t \in [Reqs -> ToolNames] : InitCall([r \in Reqs |-> ToolsArgs], Reqs, t)

NextTools ==
    \/ \E r \in Reqs : CallTool(r)
    \/ \E r \in Reqs : LaunchOk(r)
    \/ \E r \in Reqs : NewPageOk(r)
    \/ \E r \in Reqs : SetViewportOk(r)
    \/ \E r \in Reqs : GotoOk(r)
    \/ \E r \in Reqs : EvaluateOk(r, InitialViewportHeight)
    \/ \E r \in Reqs : ScreenshotOk(r)
    \/ \E r \in Reqs : CloseOk(r)
    \/ \E r \in Reqs : Respond(r)

SpecTools == InitTools /\ [][NextTools]_vars

\* C18: a tool call naming any tool other than "screenshot" is answered
\* with MethodNotFound; screenshotTool is not invoked for it (no result, no
\* exception, no browser, no page operation), and the step that answers it
\* leaves the session map and the browsers as they were.
C18_UnknownToolMethodNotFound ==
    /\ [](\A r \in Reqs :
            tool[r] # "screenshot" =>
                /\ pc[r] \in {"idle", "replied"}
                /\ ops[r] = <<>>
                /\ browserOf[r] = NoHandle
                /\ LaunchedBy(r) = {}
                /\ result[r] = NoResult
                /\ thrown[r] = <<>>
                /\ pc[r] = "replied" =>
                       reply[r] = McpError("MethodNotFound",
                                           <<"Unknown tool: ", tool[r]>>))
    /\ [][\A r \in Reqs :
            tool[r] # "screenshot" /\ pc[r] = "idle" /\ pc'[r] # "idle" =>
                /\ browserInstances' = browserInstances
                /\ browsers' = browsers
                /\ mapTouch' = 0]_vars

\* A call of another tool has been refused while the map holds the session
\* a screenshot call created.
C18_Witness ==
    \E r \in Reqs :
        /\ tool[r] # "screenshot" /\ pc[r] = "replied"
        /\ reply[r].code = "MethodNotFound"
        /\ DOMAIN browserInstances # {}

\* ----------------------------------------------------------------- cookies
\* Longest cookie list a request of the cookie specification gives.
MaxCookies == 2

Cookie(name, value, domain, path) ==
    [name |-> name, value |-> value, domain |-> domain, path |-> path]

\* A cookie with neither domain nor path, one with both, one with both
\* empty.
CookieSamples ==
    {Cookie("sid", "1", UNDEF, UNDEF), Cookie("pref", "2", "y.test", "/app"),
     Cookie("tok", "3", "", "")}

\* One request on its own, with one or two breakpoints, with no cookie list
\* or a list of at most MaxCookies cookies, and with a url that has a port,
\* one that has none, or one that new URL cannot parse.
CookieArgs ==
    {[BaseArgs EXCEPT !.url = u, !.breakpoints = Some(b), !.cookies = c] :
        u \in {"https://example.com/", "http://localhost:3000/", "example.com"},
        b \in {<<375>>, <<375, 768>>},
        c \in {Absent} \cup {Some(l) : l \in SeqsUpTo(CookieSamples, MaxCookies)}}

InitCookies == \E a \in CookieArgs : InitWith(Single(a), {1})

NextCookies ==
    \/ \E r \in Reqs : Invoke(r)
    \/ \E r \in Reqs : LaunchOk(r)
    \/ \E r \in Reqs : NewPageOk(r)
    \/ \E r \in Reqs : SetViewportOk(r)
    \/ \E r \in Reqs : SetCookieOk(r)
    \/ \E r \in Reqs : SetCookieFail(r)
    \/ \E r \in Reqs : GotoOk(r)
    \/ \E r \in Reqs : EvaluateOk(r, InitialViewportHeight)
    \/ \E r \in Reqs : ScreenshotOk(r)
    \/ \E r \in Reqs : CloseOk(r)
    \/ \E r \in Reqs : Raise(r)

SpecCookies == InitCookies /\ [][NextCookies]_vars

\* The page.setCookie and page.goto calls request r made in iteration k, in
\* the order it made them.
CookieOps(r, k) ==
    SelectSeq(ops[r], LAMBDA o : /\ o.bp = k /\ o.act = 0
                                 /\ o.op \in {"page.setCookie", "page.goto"})

\* C19: in every viewport iteration the cookies are attempted one by one in
\* list order, all of them before the navigation of that iteration starts;
\* and a page.setCookie that fails neither ends the request nor stops the
\* list: the request goes on to the next cookie or to the navigation.
C19_AllCookiesBeforeNavigation ==
    /\ [](\A r \in Reqs : \A k \in 1..Len(Bps(r)) :
            LET made == CookieOps(r, k)
                n == Len(Cks(r))
            IN /\ Len(made) <= n + 1
               /\ \A i \in 1..Len(made) :
                     IF i <= n
                     THEN /\ made[i].op = "page.setCookie"
                          /\ made[i].arg[1].name = Cks(r)[i].name
                     ELSE made[i].op = "page.goto")
    /\ [][\A r \in Reqs :
            pc[r] = "setCookie" =>
                \/ pc'[r] = "setCookie" /\ ckIdx'[r] \in {ckIdx[r], ckIdx[r] + 1}
                \/ pc'[r] = "goto" /\ ckIdx[r] = Len(Cks(r))]_vars

\* A request with two cookies and two breakpoints succeeded although a
\* page.setCookie was rejected.
C19_Witness ==
    \E r \in Reqs :
        /\ Succeeded(r)
        /\ Len(Cks(r)) = 2 /\ Len(Bps(r)) = 2
        /\ \E n \in DOMAIN ops[r] : ops[r][n].op = "console.error"
        /\ Len(CookieOps(r, 1)) = 3 /\ Len(CookieOps(r, 2)) = 3

\* C20: every cookie handed to page.setCookie carries a domain and a path:
\* the cookie's own domain when it gives one and otherwise the host name of
\* the request url, the cookie's own path when it gives one and otherwise
\* "/".
C20_CookieDomainAndPath ==
    \A r \in Reqs : \A k \in 1..Len(Bps(r)) :
        LET made == CookieOps(r, k) IN
        \A i \in 1..Len(made) :
            made[i].op = "page.setCookie" =>
                LET given == Cks(r)[i]
                    c == made[i].arg[1]
                IN /\ c.name = given.name /\ c.value = given.value
                   /\ c.domain = IF given.domain \notin {UNDEF, ""}
                                 THEN given.domain
                                 ELSE hostname(args[r].url)
                   /\ c.path = IF given.path \notin {UNDEF, ""}
                               THEN given.path ELSE "/"
                   /\ c.domain \notin {UNDEF, ""}
                   /\ c.path \notin {UNDEF, ""}

\* A cookie given without domain was handed to the page of a url with a
\* port, scoped to the host name of that url.
C20_Witness ==
    \E r \in Reqs : \E n \in DOMAIN ops[r] :
        /\ ops[r][n].op = "page.setCookie"
        /\ args[r].url = "http://localhost:3000/"
        /\ ops[r][n].arg[1].name = "sid"
        /\ ops[r][n].arg[1].domain = "localhost"
        /\ ops[r][n].arg[1].path = "/"

\* ------------------------------------------- the order of the operations
\* The operations request r issued in iteration k of its loop, in order.
Iteration(r, k) == SelectSeq(ops[r], LAMBDA o : o.bp = k)

\* The names of the operations of a list.
OpNames(os) == [n \in DOMAIN os |-> os[n].op]

\* The operations of iteration k that belong to action i.
ActionOps(r, k, i) == SelectSeq(Iteration(r, k), LAMBDA o : o.act = i)

\* The delays request r has waited out after an action.
Settles(r) == SelectSeq(ops[r], LAMBDA o : o.op = "setTimeout:100")

\* C21: in a successful request with N viewports and A actions, every
\* iteration runs every action once, in list order (its primitives, then
\* the delay that ends it), after the iteration's page.goto and before its
\* geometry probe; N*A actions are executed in all.
C21_ActionsOncePerIteration ==
    \A r \in Reqs :
        Succeeded(r) =>
            /\ Len(Settles(r)) = Len(Bps(r)) * Len(Acts(r))
            /\ \A k \in 1..Len(Bps(r)) :
                  LET it == Iteration(r, k) IN
                  /\ \A i \in 1..Len(Acts(r)) :
                        OpNames(ActionOps(r, k, i)) =
                            ActionPrimitives(Acts(r)[i]) \o <<"setTimeout:100">>
                  /\ \A n \in DOMAIN it : it[n].act <= Len(Acts(r))
                  /\ \A m, n \in DOMAIN it :
                        m < n /\ it[m].act > 0 /\ it[n].act > 0 =>
                            it[m].act <= it[n].act
                  /\ \E g, e \in DOMAIN it :
                        /\ it[g].op = "page.goto" /\ it[g].act = 0
                        /\ it[e].op = "page.evaluate:dimensions"
                        /\ \A n \in DOMAIN it :
                              it[n].act > 0 => g < n /\ n < e

\* A request of two viewports and two actions succeeded after four action
\* executions.
C21_Witness ==
    \E r \in Reqs :
        /\ Succeeded(r)
        /\ Len(Bps(r)) = 2
        /\ Len(Acts(r)) = 2
        /\ Len(Settles(r)) = 4

\* ------------------------------------------------ the whole pipeline
\* One request on its own with no, one or two breakpoints, with or without
\* a cookie, with no action, a click, a navigation or a click that lacks
\* its selector, and with a url that new URL can or cannot parse.
PipelineArgs ==
    {[BaseArgs EXCEPT !.url = u, !.breakpoints = Some(b), !.cookies = c,
                      !.actions = a] :
        u \in {"https://example.com/", "example.com"},
        b \in {<<>>, <<375>>, <<375, 768>>},
        c \in {Absent, Some(<<Cookie("sid", "1", UNDEF, UNDEF)>>)},
        a \in {Absent,
               Some(<<Action("click", "#go", UNDEF, UNDEF, Absent, Absent, UNDEF)>>),
               Some(<<Action("navigate", UNDEF, UNDEF, UNDEF, Absent, Absent,
                             "https://y.test/")>>),
               Some(<<Action("click", UNDEF, UNDEF, UNDEF, Absent, Absent, UNDEF)>>)}}

InitPipeline == \E a \in PipelineArgs : InitWith(Single(a), {1})

NextPipeline ==
    \/ \E r \in Reqs : Invoke(r)
    \/ \E r \in Reqs : LaunchOk(r)
    \/ \E r \in Reqs : NewPageOk(r)
    \/ \E r \in Reqs : SetViewportOk(r)
    \/ \E r \in Reqs : SetCookieOk(r)
    \/ \E r \in Reqs : SetCookieFail(r)
    \/ \E r \in Reqs : GotoOk(r)
    \/ \E r \in Reqs : ActionPrimOk(r)
    \/ \E r \in Reqs : SettleOk(r)
    \/ \E r \in Reqs : EvaluateOk(r, InitialViewportHeight)
    \/ \E r \in Reqs : ScreenshotOk(r)
    \/ \E r \in Reqs : CloseOk(r)
    \/ \E r \in Reqs : Raise(r)

SpecPipeline == InitPipeline /\ [][NextPipeline]_vars

IsPrefix(s, t) == Len(s) <= Len(t) /\ \A n \in DOMAIN s : s[n] = t[n]

\* The browser and page operations request r has issued, each with the
\* iteration it was issued in (console.error is no such operation).
Issued(r) ==
    LET f == SelectSeq(ops[r], LAMBDA o : o.op # "console.error")
    IN [n \in DOMAIN f |-> <<f[n].op, f[n].bp>>]

\* executePageActions in iteration k: each action's primitives, then the
\* delay that ends it.
RECURSIVE ActionPlan(_, _)
ActionPlan(acts, k) ==
    IF acts = <<>> THEN <<>>
    ELSE LET ps == ActionPrimitives(Head(acts)) IN
         [n \in DOMAIN ps |-> <<ps[n], k>>] \o <<<<"setTimeout:100", k>>>>
            \o ActionPlan(Tail(acts), k)

\* The body of the loop for iteration k: viewport, cookies, navigation,
\* actions, geometry probe, render.
IterationPlan(r, k) ==
    <<<<"page.setViewport", k>>>>
        \o [j \in 1..Len(Cks(r)) |-> <<"page.setCookie", k>>]
        \o <<<<"page.goto", k>>>>
        \o ActionPlan(Acts(r), k)
        \o <<<<"page.evaluate:dimensions", k>>, <<"page.screenshot", k>>>>

RECURSIVE LoopPlan(_, _)
LoopPlan(r, k) ==
    IF k > Len(Bps(r)) THEN <<>>
    ELSE IterationPlan(r, k) \o LoopPlan(r, k + 1)

\* The operations of a request that runs to its end: acquire (a launch
\* unless the lookup found a handle), open page and subscribe, the loop,
\* close page.
Plan(r) ==
    (IF lookupHit[r] = NoHandle THEN <<<<"puppeteer.launch", 0>>>> ELSE <<>>)
        \o <<<<"browser.newPage", 0>>>>
        \o [n \in DOMAIN Subscriptions |-> <<Subscriptions[n].op, 0>>]
        \o LoopPlan(r, 1)
        \o <<<<"page.close", Len(Bps(r)) + 1>>>>

\* C22: what a request has issued is at every moment a prefix of the
\* sequence acquire, open page, per viewport (set viewport, cookies,
\* navigate, actions, probe, render), close page, and the whole of it when
\* the request succeeds; the setViewport of a later viewport is issued only
\* by the step in which the previous viewport's page.screenshot resolves;
\* and once the request has ended, failed or not, it issues nothing more.
C22_OperationsFollowStateMachine ==
    /\ [](\A r \in Reqs :
            /\ pc[r] # "unissued" /\ pc[r] # "idle" => IsPrefix(Issued(r), Plan(r))
            /\ Succeeded(r) => Issued(r) = Plan(r))
    /\ [][\A r \in Reqs :
            /\ \A n \in DOMAIN ops'[r] :
                  /\ n > Len(ops[r])
                  /\ ops'[r][n].op = "page.setViewport"
                  /\ ops'[r][n].bp > 1
                  => /\ pc[r] = "screenshot"
                     /\ ops'[r][n].bp = bpIdx[r] + 1
                     /\ Len(results'[r]) = bpIdx[r]
            /\ pc[r] = "done" => ops'[r] = ops[r] /\ pc'[r] = "done"]_vars

\* A request of two viewports, one cookie and one action ran its whole
\* plan and succeeded.
C22_Witness ==
    \E r \in Reqs :
        /\ Succeeded(r)
        /\ Len(Bps(r)) = 2 /\ Len(Cks(r)) = 1 /\ Len(Acts(r)) = 1
        /\ Issued(r) = Plan(r)

\* ------------------------------------------------- the launch of a browser
\* Request r started a launch: the first call of its getBrowser was
\* puppeteer.launch.
Launched(r) == ops[r] # <<>> /\ ops[r][1].op = "puppeteer.launch"

\* C23: the profile directory a request launches a browser with is its
\* userDataDir when it gave one, with or without a session identifier;
\* else the directory os.tmpdir()/puppeteer-mcp-sessions/<sessionId> when
\* it gave a session identifier; else none.  The browser process started
\* runs on that directory.
C23_EffectiveProfileDirectory ==
    \A r \in Reqs :
        Launched(r) =>
            LET dir == IF args[r].userDataDir \notin {UNDEF, ""}
                       THEN <<<<args[r].userDataDir>>>>
                       ELSE IF args[r].sessionId \notin {UNDEF, ""}
                            THEN <<<<"os.tmpdir()", "puppeteer-mcp-sessions",
                                     args[r].sessionId>>>>
                            ELSE <<>>
            IN /\ ops[r][1].arg[1].userDataDir = dir
               /\ \A b \in LaunchedBy(r) : browsers[b].userDataDir = dir

\* One request with a session identifier and a userDataDir has launched a
\* browser on its userDataDir, and another with a session identifier only
\* has launched one on its session's directory.
C23_Witness ==
    \E r, q \in Reqs :
        /\ args[r].sessionId = "s1" /\ args[r].userDataDir = "/profiles/a"
        /\ \E b \in LaunchedBy(r) :
              browsers[b].userDataDir = <<<<"/profiles/a">>>>
        /\ args[q].sessionId = "s1" /\ args[q].userDataDir = UNDEF
        /\ \E b \in LaunchedBy(q) :
              browsers[b].userDataDir =
                  <<<<"os.tmpdir()", "puppeteer-mcp-sessions", "s1">>>>

\* The session map holds under the key of request r a handle that reports
\* disconnected.
StaleEntry(r) ==
    /\ KeyOf(r) \in DOMAIN browserInstances
    /\ ~browsers[browserInstances[KeyOf(r)]].connected

\* C24: a getBrowser that finds a disconnected entry under its key removes
\* the entry in the step that starts the launch; the step in which a launch
\* resolves stores the new browser under the key and returns that same
\* handle; and whenever getBrowser returns a handle, it is connected.
C24_StaleEntryEvicted ==
    [][\A r \in Reqs :
        /\ pc[r] = "idle" /\ pc'[r] \in {"launch", "newPage"} /\ StaleEntry(r)
           => /\ pc'[r] = "launch"
              /\ browserOf'[r] = NoHandle
              /\ KeyOf(r) \notin DOMAIN browserInstances'
        /\ pc[r] = "launch" /\ pc'[r] = "newPage"
           => /\ browserOf'[r] \notin DOMAIN browsers
              /\ browserOf'[r] \in DOMAIN browsers'
              /\ browsers'[browserOf'[r]].launchedBy = r
              /\ KeyOf(r) \in DOMAIN browserInstances'
              /\ browserInstances'[KeyOf(r)] = browserOf'[r]
        /\ browserOf[r] = NoHandle /\ browserOf'[r] # NoHandle
           => browsers'[browserOf'[r]].connected]_vars

\* Request r has just started a launch after removing the entry of a
\* browser that an earlier request had launched under the same key and that
\* has disconnected since.
C24_Witness ==
    \E r \in Reqs, b \in DOMAIN browsers :
        /\ pc[r] = "launch" /\ mapTouch = r
        /\ KeyOf(r) \notin DOMAIN browserInstances
        /\ browsers[b].key = KeyOf(r)
        /\ ~browsers[b].connected
        /\ browsers[b].launchedBy # r
        /\ pc[browsers[b].launchedBy] = "done"

\* The launch request r started was rejected: the request has ended and
\* its getBrowser never returned a handle.
LaunchFailed(r) == pc[r] = "done" /\ Launched(r) /\ browserOf[r] = NoHandle

\* C25: a request whose launch is rejected returns the failure shape with
\* the message of the rejection; it has called puppeteer.launch once and
\* nothing else, so no page was opened; no browser of its own exists and
\* the session map holds no entry it created; and the step in which the
\* launch is rejected ends the request and leaves the map and the browsers
\* as they were.
C25_LaunchFailureIsFatal ==
    /\ [](\A r \in Reqs :
            LaunchFailed(r) =>
                /\ result[r] = Failure(<<"launch", " rejected">>)
                /\ Len(ops[r]) = 1
                /\ LaunchedBy(r) = {}
                /\ \A k \in DOMAIN browserInstances :
                      browsers[browserInstances[k]].launchedBy # r)
    /\ [][\A r \in Reqs :
            /\ pc[r] = "launch" /\ pc'[r] # "newPage"
            /\ <<pc[r], ops[r], result[r]>>' # <<pc[r], ops[r], result[r]>>
            => /\ pc'[r] = "done"
               /\ ~result'[r].success
               /\ ops'[r] = ops[r]
               /\ UNCHANGED <<browserInstances, browsers>>]_vars

\* The launch of a request was rejected while the other request's browser
\* is registered in the session map.
C25_Witness ==
    \E r \in Reqs :
        /\ LaunchFailed(r)
        /\ result[r].error = <<"launch", " rejected">>
        /\ browserInstances # <<>>

\* ------------------------------------------------ the diagnostics list
\* An uncaught error, a console message, a response that is recorded and
\* one that is not.
RecordEvents ==
    {Event("pageerror", "", 0, "TypeError: y is undefined"),
     Event("console", "log", 0, "ready"),
     Event("response", "", 404, ""),
     Event("response", "", 200, "")}

\* One request on its own, with one or two breakpoints and with or without
\* an action.
RecordArgs ==
    {[BaseArgs EXCEPT !.breakpoints = Some(b), !.actions = a] :
        b \in {<<375>>, <<375, 768>>},
        a \in {Absent,
               Some(<<Action("click", "#go", UNDEF, UNDEF, Absent, Absent, UNDEF)>>)}}

InitRecords == \E a \in RecordArgs : InitWith(Single(a), {1})

NextRecords ==
    \/ \E r \in Reqs : Invoke(r)
    \/ \E r \in Reqs : LaunchOk(r)
    \/ \E r \in Reqs : NewPageOk(r)
    \/ \E r \in Reqs : SetViewportOk(r)
    \/ \E r \in Reqs : GotoOk(r)
    \/ \E r \in Reqs : ActionPrimOk(r)
    \/ \E r \in Reqs : SettleOk(r)
    \/ \E r \in Reqs : EvaluateOk(r, InitialViewportHeight)
    \/ \E r \in Reqs : ScreenshotOk(r)
    \/ \E r \in Reqs : CloseOk(r)
    \/ \E r \in Reqs : Raise(r)
    \/ \E r \in Reqs, e \in RecordEvents : PageEvent(r, e, MaxEvents)

SpecRecords == InitRecords /\ [][NextRecords]_vars

\* What the listeners push for a sequence of page events.
RECURSIVE RecordsOf(_)
RecordsOf(es) ==
    IF es = <<>> THEN <<>> ELSE Listener(Head(es)) \o RecordsOf(Tail(es))

\* The positions in the call log of request r of the calls named name.
Calls(r, name) == {n \in DOMAIN ops[r] : ops[r][n].op = name}

\* C26: every navigation a request issues, the first one included, comes
\* after all four subscriptions, each made once and after browser.newPage;
\* and the diagnostics list holds the record of every event the page has
\* emitted since, whichever navigation or action produced it.
C26_SubscribedBeforeNavigation ==
    \A r \in Reqs :
        /\ \A name \in {Subscriptions[n].op : n \in DOMAIN Subscriptions} :
              /\ Cardinality(Calls(r, name)) <= 1
              /\ \A s \in Calls(r, name) :
                    \E p \in Calls(r, "browser.newPage") : p < s
              /\ \A g \in Calls(r, "page.goto") :
                    \E s \in Calls(r, name) : s < g
        /\ pageErrors[r] = RecordsOf(events[r])

\* While the first navigation of a request is still pending the page has
\* emitted an uncaught error, and its record is in the list.
C26_Witness ==
    \E r \in Reqs :
        /\ pc[r] = "goto" /\ bpIdx[r] = 1
        /\ events[r] # <<>>
        /\ events[r][1].kind = "pageerror"
        /\ pageErrors[r] # <<>>
        /\ pageErrors[r][1].type = "javascript"

\* ------------------------------------------------------ the page's end
\* C27: a successful request has called page.close once, as its last call
\* and after every page.screenshot, and has never closed the browser; the
\* step that returns the success result is the one in which page.close
\* resolves: it computes the summary from the list as it is then, takes
\* the page off the browser, and leaves the browser connected and the
\* session map as it was.
C27_PageClosedOnceOnSuccess ==
    /\ [](\A r \in Reqs :
            Succeeded(r) =>
                /\ Cardinality(Calls(r, "page.close")) = 1
                /\ ops[r][Len(ops[r])].op = "page.close"
                /\ \A s \in Calls(r, "page.screenshot") :
                      \A c \in Calls(r, "page.close") : s < c
                /\ Cardinality(Calls(r, "page.screenshot")) = Len(Bps(r))
                /\ Calls(r, "browser.close") = {})
    /\ [][\A r \in Reqs :
            ~Succeeded(r) /\ Succeeded(r)' =>
                LET b == browserOf[r] IN
                /\ pc[r] = "close"
                /\ Calls(r, "page.close") # {}
                /\ ops'[r] = ops[r]
                /\ result'[r].pageErrors = pageErrors[r]
                /\ result'[r].errorSummary = errorSummary(pageErrors[r])
                /\ browsers[b].connected /\ browsers'[b].connected
                /\ browsers'[b].pages = browsers[b].pages - 1
                /\ browserInstances' = browserInstances]_vars

\* A request of two viewports has succeeded, its page is closed and its
\* browser is still connected and registered.
C27_Witness ==
    \E r \in Reqs :
        /\ Succeeded(r)
        /\ Len(Bps(r)) = 2
        /\ browsers[browserOf[r]].connected
        /\ browsers[browserOf[r]].pages = 0
        /\ browserInstances[KeyOf(r)] = browserOf[r]

\* The request failed inside an iteration of its loop over the breakpoints.
FailedInIteration(r) ==
    /\ pc[r] = "done" /\ ~result[r].success
    /\ bpIdx[r] >= 1 /\ bpIdx[r] <= Len(Bps(r))

\* The requests whose page is open in browser b: those between
\* browser.newPage and the resolution of page.close, and those that failed
\* in between.
OpenPages(b) ==
    {r \in Reqs : browserOf[r] = b /\ bpIdx[r] >= 1 /\ ~Succeeded(r)}

\* C28: a request that failed inside an iteration has issued no
\* page.close; the failing step issues no call and leaves every browser
\* with the pages it had; so a connected browser holds one open page for
\* every request that opened a page in it and has not closed it, the failed
\* ones included.
C28_FailureLeavesPageOpen ==
    /\ [](\A r \in Reqs : FailedInIteration(r) => Calls(r, "page.close") = {})
    /\ [](\A b \in DOMAIN browsers :
            browsers[b].connected =>
                browsers[b].pages = Cardinality(OpenPages(b)))
    /\ [][\A r \in Reqs :
            ~FailedInIteration(r) /\ FailedInIteration(r)' =>
                ops'[r] = ops[r] /\ browsers' = browsers]_vars

\* Two requests of one session have failed inside their iterations, and
\* the session's browser holds two open pages.
C28_Witness ==
    \E b \in DOMAIN browsers :
        /\ browsers[b].connected
        /\ browsers[b].pages = 2
        /\ \A r \in Reqs : FailedInIteration(r) /\ browserOf[r] = b

\* C29: every step leaves the records already in the diagnostics list in
\* place and adds at most one, at the end; only a page event changes the
\* list, so no iteration of the loop starts a new one; and the list of a
\* successful result holds, in arrival order, the records of all events
\* the page emitted during the run.
C29_DiagnosticsAppendOnly ==
    /\ [][\A r \in Reqs :
            /\ IsPrefix(pageErrors[r], pageErrors'[r])
            /\ Len(pageErrors'[r]) <= Len(pageErrors[r]) + 1
            /\ events'[r] = events[r] => pageErrors'[r] = pageErrors[r]]_vars
    /\ [](\A r \in Reqs :
            Succeeded(r) => result[r].pageErrors = RecordsOf(events[r]))

\* A request of two viewports succeeded with three records: a 404, then an
\* uncaught error, then a console message.
C29_Witness ==
    \E r \in Reqs :
        /\ Succeeded(r)
        /\ Len(Bps(r)) = 2
        /\ Len(result[r].pageErrors) = 3
        /\ result[r].pageErrors[1].type = "network"
        /\ result[r].pageErrors[2].type = "javascript"
        /\ result[r].pageErrors[3].type = "console"

\* The number of records of list l whose level is level.
RecordsAt(l, level) == Cardinality({i \in DOMAIN l : l[i].level = level})

\* C30: in a successful result totalErrors, totalWarnings and totalLogs
\* are the numbers of returned records of level error, warning and info,
\* and add up to the length of the list; hasJavaScriptErrors and
\* hasNetworkErrors hold only with totalErrors >= 1, and hasConsoleLogs
\* only with totalLogs >= 1.
C30_SummaryCountsMatchList ==
    \A r \in Reqs :
        Succeeded(r) =>
            LET s == result[r].errorSummary
                l == result[r].pageErrors
            IN /\ s.totalErrors = RecordsAt(l, "error")
               /\ s.totalWarnings = RecordsAt(l, "warning")
               /\ s.totalLogs = RecordsAt(l, "info")
               /\ s.totalErrors + s.totalWarnings + s.totalLogs = Len(l)
               /\ s.hasJavaScriptErrors => s.totalErrors >= 1
               /\ s.hasNetworkErrors => s.totalErrors >= 1
               /\ s.hasConsoleLogs => s.totalLogs >= 1

\* A successful result with one record of each level: a failed request, a
\* console warning and a console log.
C30_Witness ==
    \E r \in Reqs :
        /\ Succeeded(r)
        /\ Len(result[r].pageErrors) = 3
        /\ result[r].errorSummary.totalErrors = 1
        /\ result[r].errorSummary.totalWarnings = 1
        /\ result[r].errorSummary.totalLogs = 1
        /\ result[r].errorSummary.hasNetworkErrors
        /\ result[r].errorSummary.hasConsoleLogs
        /\ ~result[r].errorSummary.hasJavaScriptErrors

\* ------------------------------------------------ the four listeners
\* The page event the step has delivered to request r, if any.
Delivered(r) == Len(events'[r]) = Len(events[r]) + 1

\* C31: a console event adds exactly one record to the end of the list,
\* of type console, with the text of the message, and of level error for
\* the console types "error" and "assert", warning for "warning" and info
\* for every other type.
C31_ConsoleLevelMapping ==
    [][\A r \in Reqs :
        Delivered(r) /\ events'[r][Len(events'[r])].kind = "console" =>
            LET e == events'[r][Len(events'[r])]
                l == pageErrors'[r]
            IN /\ Len(l) = Len(pageErrors[r]) + 1
               /\ SubSeq(l, 1, Len(l) - 1) = pageErrors[r]
               /\ l[Len(l)].type = "console"
               /\ l[Len(l)].message = <<e.text>>
               /\ l[Len(l)].level =
                     CASE e.type \in {"error", "assert"} -> "error"
                       [] e.type = "warning" -> "warning"
                       [] OTHER -> "info"]_vars

\* The page has logged a failed console.assert and a console.debug, and
\* the list holds an error record and an info record for them.
C31_Witness ==
    \E r \in Reqs :
        /\ Len(events[r]) = 2 /\ Len(pageErrors[r]) = 2
        /\ events[r][1].kind = "console" /\ events[r][1].type = "assert"
        /\ events[r][2].kind = "console" /\ events[r][2].type = "debug"
        /\ pageErrors[r][1].level = "error"
        /\ pageErrors[r][2].level = "info"

\* C32: a response adds a record exactly when its status is outside
\* 200..299: one record at the end of the list, of type network, with the
\* URL and the status of the response, of level error from status 500 on
\* and warning below; a response with a status in 200..299 leaves the list
\* as it is.
C32_ResponseRecords ==
    [][\A r \in Reqs :
        Delivered(r) /\ events'[r][Len(events'[r])].kind = "response" =>
            LET e == events'[r][Len(events'[r])]
                l == pageErrors'[r]
            IN IF e.status >= 200 /\ e.status <= 299
               THEN l = pageErrors[r]
               ELSE /\ Len(l) = Len(pageErrors[r]) + 1
                    /\ SubSeq(l, 1, Len(l) - 1) = pageErrors[r]
                    /\ l[Len(l)].type = "network"
                    /\ l[Len(l)].url = e.url
                    /\ l[Len(l)].statusCode = e.status
                    /\ l[Len(l)].level =
                          IF e.status >= 500 THEN "error" ELSE "warning"]_vars

\* The page has received a 200, a 304 from another host and a 503: the
\* list holds a warning for the 304 and an error for the 503, and nothing
\* for the 200.
C32_Witness ==
    \E r \in Reqs :
        /\ Len(events[r]) = 3 /\ Len(pageErrors[r]) = 2
        /\ events[r][1].kind = "response" /\ events[r][1].status = 200
        /\ events[r][2].kind = "response" /\ events[r][2].status = 304
        /\ events[r][3].kind = "response" /\ events[r][3].status = 503
        /\ pageErrors[r][1].statusCode = 304
        /\ pageErrors[r][1].level = "warning"
        /\ pageErrors[r][1].url = ResourceUrl
        /\ pageErrors[r][2].statusCode = 503
        /\ pageErrors[r][2].level = "error"

\* ------------------------------------------------ the action executor
\* The fields each action type requires.
Required(type) ==
    CASE type \in {"click", "clear", "hover", "waitForElement"} -> {"selector"}
      [] type = "type" -> {"selector", "text"}
      [] type = "select" -> {"selector", "value"}
      [] type = "navigate" -> {"url"}
      [] OTHER -> {}

\* The string fields of an action.
Field(a, f) ==
    CASE f = "selector" -> a.selector
      [] f = "text" -> a.text
      [] f = "value" -> a.value
      [] f = "url" -> a.url

\* The required fields action a lacks (undefined or empty).
MissingFields(a) == {f \in Required(a.type) : Field(a, f) \in {UNDEF, ""}}

\* The action type and the fields each message of the switch names.
Names(msg) ==
    CASE msg = "Click action requires selector" -> [type |-> "click", fields |-> {"selector"}]
      [] msg = "Type action requires selector and text" ->
           [type |-> "type", fields |-> {"selector", "text"}]
      [] msg = "Clear action requires selector" -> [type |-> "clear", fields |-> {"selector"}]
      [] msg = "Hover action requires selector" -> [type |-> "hover", fields |-> {"selector"}]
      [] msg = "Select action requires selector and value" ->
           [type |-> "select", fields |-> {"selector", "value"}]
      [] msg = "WaitForElement action requires selector" ->
           [type |-> "waitForElement", fields |-> {"selector"}]
      [] msg = "Navigate action requires url" -> [type |-> "navigate", fields |-> {"url"}]
      [] OTHER -> [type |-> "", fields |-> {}]

\* The executor of request r stopped at action j.
StoppedAt(r, j) == pc[r] = "done" /\ ~result[r].success /\ actIdx[r] = j

\* C33: no page operation is ever issued for an action that lacks a field
\* its type requires; the executor that arrives at such an action throws
\* at once, the request fails, and the message names the type of the
\* action and the fields it requires, the missing one among them; so no
\* request whose loop runs has succeeded with such an action in its list.
C33_MissingFieldFailsBeforeAnyOperation ==
    \A r \in Reqs :
        /\ \A n \in DOMAIN ops[r] :
              ops[r][n].act > 0 => MissingFields(Acts(r)[ops[r][n].act]) = {}
        /\ \A j \in DOMAIN Acts(r) :
              StoppedAt(r, j) /\ MissingFields(Acts(r)[j]) # {} =>
                  /\ Len(result[r].error) = 4
                  /\ result[r].error[1] = "Failed to execute action "
                  /\ result[r].error[2] = Acts(r)[j].type
                  /\ Names(result[r].error[4]).type = Acts(r)[j].type
                  /\ MissingFields(Acts(r)[j]) \subseteq
                         Names(result[r].error[4]).fields
        /\ Succeeded(r) /\ Bps(r) # <<>> =>
              \A j \in DOMAIN Acts(r) : MissingFields(Acts(r)[j]) = {}

\* After a complete first action the executor stopped at a select action
\* without value, for which it issued nothing.
C33_Witness ==
    \E r \in Reqs :
        /\ Len(Acts(r)) = 2
        /\ StoppedAt(r, 2)
        /\ Acts(r)[2].type = "select"
        /\ MissingFields(Acts(r)[2]) = {"value"}
        /\ \E n \in DOMAIN ops[r] : ops[r][n].act = 1
        /\ \A n \in DOMAIN ops[r] : ops[r][n].act # 2
        /\ result[r].error[4] = "Select action requires selector and value"

\* The operations of action i in iteration k, complete: its primitives and
\* the delay that ends it.
CompleteAction(r, i) == ActionPrimitives(Acts(r)[i]) \o <<"setTimeout:100">>

\* C34: in every iteration the operations of the actions appear in list
\* order, an action starts only when the one before it is complete with
\* its delay, and its first operation is issued by the step in which the
\* navigation (for the first action) or the delay of the action before it
\* ends; when the executor stops at action j, every action before j is
\* complete in the call log, action j has no delay, no later action has an
\* operation, the error reads "Failed to execute action <type>: <cause>",
\* the cause being the rejection of the operation issued last when one of
\* the action's operations was rejected; and nothing is issued afterwards.
C34_ActionsSequentialStopAtFirstFailure ==
    /\ [](\A r \in Reqs : \A k \in 1..Len(Bps(r)) :
            LET it == Iteration(r, k) IN
            /\ \A m, n \in DOMAIN it :
                  m < n /\ it[m].act > 0 /\ it[n].act > 0 =>
                      it[m].act <= it[n].act
            /\ \A i \in DOMAIN Acts(r) :
                  /\ IsPrefix(OpNames(ActionOps(r, k, i)), CompleteAction(r, i))
                  /\ i > 1 /\ ActionOps(r, k, i) # <<>> =>
                        OpNames(ActionOps(r, k, i - 1)) = CompleteAction(r, i - 1)
            /\ \A j \in DOMAIN Acts(r) :
                  StoppedAt(r, j) /\ bpIdx[r] = k =>
                      /\ \A i \in 1..(j - 1) :
                            OpNames(ActionOps(r, k, i)) = CompleteAction(r, i)
                      /\ \A n \in DOMAIN it :
                            /\ it[n].act <= j
                            /\ it[n].act = j => it[n].op # "setTimeout:100"
                      /\ Len(result[r].error) >= 4
                      /\ SubSeq(result[r].error, 1, 3) =
                            <<"Failed to execute action ", Acts(r)[j].type, ": ">>
                      /\ ops[r][Len(ops[r])].act = j =>
                            SubSeq(result[r].error, 4, Len(result[r].error)) =
                                <<ops[r][Len(ops[r])].op, " rejected">>)
    /\ [][\A r \in Reqs :
            /\ \A n \in DOMAIN ops'[r] :
                  /\ n > Len(ops[r])
                  /\ ops'[r][n].act > 0
                  /\ ops[r] # <<>>
                  /\ ops[r][Len(ops[r])].act # ops'[r][n].act
                  => IF ops'[r][n].act = 1
                     THEN pc[r] = "goto"
                     ELSE pc[r] = "settle" /\ actIdx[r] = ops'[r][n].act - 1
            /\ pc[r] = "done" => ops'[r] = ops[r]]_vars

\* In the second iteration the second action's click was rejected after
\* the first action had run to its delay.
C34_Witness ==
    \E r \in Reqs :
        /\ StoppedAt(r, 2) /\ bpIdx[r] = 2
        /\ OpNames(ActionOps(r, 2, 1)) = CompleteAction(r, 1)
        /\ OpNames(ActionOps(r, 2, 2)) = <<"page.waitForSelector", "page.click">>
        /\ result[r].error =
              <<"Failed to execute action ", "click", ": ", "page.click",
                " rejected">>

\* The page operations a scroll action performs, by the priority of its
\* targets.
ScrollMode(a) ==
    IF a.x # <<>> /\ a.y # <<>>
    THEN <<"page.evaluate:scrollTo">>
    ELSE IF a.selector \notin {UNDEF, ""}
         THEN <<"page.waitForSelector", "page.evaluate:scrollIntoView">>
         ELSE <<"page.evaluate:scrollToBottom">>

\* C35: the operations issued for a scroll action are those of one mode:
\* window.scrollTo when both x and y are given, with or without selector;
\* else the wait for the selector and scrollIntoView when a selector is
\* given; else the scroll to the bottom; a scroll that has reached its
\* delay has performed exactly the operations of that one mode.
C35_ScrollModePriority ==
    \A r \in Reqs : \A k \in 1..Len(Bps(r)) : \A i \in DOMAIN Acts(r) :
        Acts(r)[i].type = "scroll" =>
            LET names == OpNames(ActionOps(r, k, i)) IN
            /\ IsPrefix(names, ScrollMode(Acts(r)[i]) \o <<"setTimeout:100">>)
            /\ names # <<>> /\ names[Len(names)] = "setTimeout:100" =>
                  names = ScrollMode(Acts(r)[i]) \o <<"setTimeout:100">>

\* A request has succeeded with two scrolls: one with coordinates and a
\* selector, which scrolled to the coordinates, and one with an x only and
\* a selector, which scrolled the element into view.
C35_Witness ==
    \E r \in Reqs :
        /\ Succeeded(r) /\ Len(Bps(r)) = 1 /\ Len(Acts(r)) = 2
        /\ Acts(r)[1].type = "scroll" /\ Acts(r)[1].selector = "#foot"
        /\ Acts(r)[1].x # <<>> /\ Acts(r)[1].y # <<>>
        /\ OpNames(ActionOps(r, 1, 1)) =
              <<"page.evaluate:scrollTo", "setTimeout:100">>
        /\ Acts(r)[2].type = "scroll" /\ Acts(r)[2].selector = "#foot"
        /\ Acts(r)[2].y = <<>>
        /\ OpNames(ActionOps(r, 1, 2)) =
              <<"page.waitForSelector", "page.evaluate:scrollIntoView",
                "setTimeout:100">>

\* ------------------------------------------------ viewport and clip
\* The clip a render of requested width w carries when the content was
\* measured h high: none up to maxWidth m, else (0, 0, m, h).
ClipFor(w, m, h) ==
    IF w > m THEN <<[x |-> 0, y |-> 0, width |-> m, height |-> h]>> ELSE <<>>

\* C36: every page.setViewport carries the requested width of its
\* iteration, also when that width exceeds maxWidth; every page.screenshot
\* carries a clip exactly when the requested width exceeds maxWidth, and
\* the clip is (0, 0, maxWidth, h), h being the content height the capture
\* of that iteration reports; and the step that issues a page.screenshot
\* is the one in which the geometry probe of the same iteration, the
\* operation issued last and after the iteration's navigation, resolves
\* with that height.
C36_RequestedViewportAndClip ==
    /\ [](\A r \in Reqs : \A n \in DOMAIN ops[r] :
            LET o == ops[r][n] IN
            /\ o.op = "page.setViewport" =>
                  o.arg = <<Bps(r)[o.bp], InitialViewportHeight>>
            /\ o.op = "page.screenshot" =>
                  /\ o.arg[1].clip # <<>> <=> Bps(r)[o.bp] > ArgMaxWidth(args[r])
                  /\ o.bp <= Len(results[r]) =>
                        o.arg[1].clip =
                            ClipFor(Bps(r)[o.bp], ArgMaxWidth(args[r]),
                                    results[r][o.bp].height))
    /\ [][\A r \in Reqs :
            pc[r] = "evaluate" /\ pc'[r] = "screenshot" =>
                LET last == ops[r][Len(ops[r])]
                    o == ops'[r][Len(ops'[r])]
                IN /\ Len(ops'[r]) = Len(ops[r]) + 1
                   /\ last.op = "page.evaluate:dimensions"
                   /\ last.bp = bpIdx[r] /\ o.bp = bpIdx[r]
                   /\ \E g \in DOMAIN ops[r] :
                         ops[r][g].op = "page.goto" /\ ops[r][g].bp = bpIdx[r]
                   /\ o.op = "page.screenshot"
                   /\ o.arg[1].clip =
                         ClipFor(Bps(r)[bpIdx[r]], ArgMaxWidth(args[r]),
                                 contentSize'[r].height)]_vars

\* A request for the widths 1920 and 375 with maxWidth 1280 succeeded, its
\* page 2340 high at the first width: the viewport was set to 1920, the
\* first render was clipped to (0, 0, 1280, 2340), the second not at all.
C36_Witness ==
    \E r \in Reqs :
        /\ Succeeded(r)
        /\ Bps(r) = <<1920, 375>> /\ ArgMaxWidth(args[r]) = 1280
        /\ \E n \in DOMAIN ops[r] :
              /\ ops[r][n].op = "page.setViewport"
              /\ ops[r][n].arg = <<1920, InitialViewportHeight>>
        /\ \E n \in DOMAIN ops[r] :
              /\ ops[r][n].op = "page.screenshot" /\ ops[r][n].bp = 1
              /\ ops[r][n].arg[1].clip =
                    <<[x |-> 0, y |-> 0, width |-> 1280, height |-> 2340]>>
        /\ \E n \in DOMAIN ops[r] :
              /\ ops[r][n].op = "page.screenshot" /\ ops[r][n].bp = 2
              /\ ops[r][n].arg[1].clip = <<>>

\* ------------------------------------------------ session metadata
\* C37: whenever a successful result carries session metadata, the
\* directory it reports is the profile directory the browser that served
\* the request was launched with.
C37_SessionInfoReportsLaunchDirectory ==
    \A r \in Reqs :
        Succeeded(r) /\ result[r].sessionInfo # <<>> =>
            browsers[browserOf[r]].userDataDir =
                <<result[r].sessionInfo[1].userDataDir>>

\* C38: when cleanup returns, whatever the capture requests did meanwhile,
\* the session map is empty and no browser the pool launched is still open.
C38_CleanupLeavesNothingOpen ==
    [][sweep.pc # "returned" /\ sweep'.pc = "returned" =>
          /\ DOMAIN browserInstances' = {}
          /\ \A b \in DOMAIN browsers' : ~browsers'[b].connected]_vars

\* C38, where no launch ever overwrote an entry of the map: shows that the
\* browsers cleanup leaves open are those of C2's concurrent launches.
C38_CleanupWithoutOverwrite ==
    [][/\ sweep.pc # "returned" /\ sweep'.pc = "returned"
       /\ \A b \in DOMAIN browsers : browsers[b].fresh
       => /\ DOMAIN browserInstances' = {}
          /\ \A b \in DOMAIN browsers' : ~browsers'[b].connected]_vars

\* ------------------------------------------------------------ termination
\* Requests with finite lists of viewports, cookies and actions.
LiveArgs ==
    {[BaseArgs EXCEPT !.breakpoints = Some(b), !.cookies = c, !.actions = a] :
        b \in {<<375>>, <<375, 1440>>},
        c \in {Absent, Some(<<Cookie("sid", "1", UNDEF, UNDEF)>>)},
        a \in {Absent,
               Some(<<Action("waitForElement", "#go", UNDEF, UNDEF, Absent,
                             Absent, UNDEF),
                      Action("click", "#go", UNDEF, UNDEF, Absent, Absent,
                             UNDEF)>>)}}

\* One such request beside a request for one viewport, both on the default
\* session.
InitLive ==
    \E a \in LiveArgs :
        InitWith([r \in Reqs |->
                     IF r = 1 THEN a
                     ELSE [BaseArgs EXCEPT !.breakpoints = Some(<<375>>)]],
                 Reqs)

\* What request r does next: the synchronous start of the call, or the
\* continuation that runs when the primitive it awaits resolves or rejects.
Progress(r) ==
    \/ Invoke(r)
    \/ LaunchOk(r)
    \/ NewPageOk(r)
    \/ SetViewportOk(r)
    \/ SetCookieOk(r)
    \/ SetCookieFail(r)
    \/ GotoOk(r)
    \/ ActionPrimOk(r)
    \/ SettleOk(r)
    \/ EvaluateOk(r, InitialViewportHeight)
    \/ ScreenshotOk(r)
    \/ CloseOk(r)
    \/ Raise(r)

NextLive ==
    \/ \E r \in Reqs : Progress(r)
    \/ \E b \in DOMAIN browsers : Disconnect(b)

\* Every awaited primitive eventually resolves or rejects, and the event loop
\* then runs the continuation of the request that awaits it.
Fairness == \A r \in Reqs : WF_vars(Progress(r))

SpecLive == InitLive /\ [][NextLive]_vars /\ Fairness

\* C39: every request eventually returns a result, a success or a failure,
\* when each primitive eventually resolves or rejects; and the rejection of an
\* awaited primitive (a timeout among them) ends the request with a failure
\* result that carries the rejection's message.
C39_EveryRequestReturns ==
    /\ \A r \in Reqs : <>(pc[r] = "done" /\ result[r] # NoResult)
    /\ [][\A r \in Reqs :
              Rejectable(r) /\ pc'[r] = "done" /\ ~result'[r].success =>
                  result'[r].error = RejectionMessage(r)]_vars

\* One request, with a cookie and two actions, was ended by a rejection in its
\* second iteration and returned a failure; the other returned a success.
C39_Witness ==
    \E r, q \in Reqs :
        /\ pc[r] = "done" /\ ~result[r].success /\ bpIdx[r] = 2
        /\ Len(Acts(r)) = 2 /\ Len(Settles(r)) = 4
        /\ result[r].error = Rejection("screenshot")
        /\ pc[q] = "done" /\ result[q].success

=============================================================================
